---- MODULE Spec2Model ----
(***************************************************************************)
(* Wallet service: deposits through Paystack, webhook crediting and        *)
(* wallet-to-wallet transfers (src/src/controllers/walletController.ts).   *)
(*                                                                         *)
(* Every HTTP request runs as a task.  A task is suspended at each await   *)
(* on the store or on the provider, so one action is the code between two  *)
(* awaits.  The store is PostgreSQL behind Prisma: a read sees committed   *)
(* rows only, an UPDATE inside prisma.$transaction takes the row's lock    *)
(* and keeps it until the transaction commits or rolls back, and the       *)
(* writes of a transaction become visible together at its commit.          *)
(*                                                                         *)
(* Amounts are integers counted in ticks: TicksPerKobo ticks make one      *)
(* kobo and KoboPerNaira kobo make one naira, so that request amounts      *)
(* finer than one kobo (isFloat accepts them) are representable and the    *)
(* naira -> kobo -> naira conversion is computed, not assumed.             *)
(***************************************************************************)
EXTENDS Integers, FiniteSets, Sequences, TLC

VARIABLES
    balance,        \* wallet.balance of every wallet row (committed)
    transactions,   \* the transaction table: reference -> row (committed)
    paystack,       \* the provider's initialized payments: reference root -> kobo
    nDeposits,      \* deposit requests that generated a reference
    nTransfers,     \* transfer requests that generated a reference
    pc,             \* where each request task is suspended
    local,          \* the local variables of each request task
    lastResp,       \* the response most recently sent
    nConfirm,       \* webhook deliveries that entered the update transaction
    credited,       \* history: how often a wallet was credited for a reference root
    users,          \* the user table (committed rows)
    wallets,        \* the wallet table without the balances (committed rows)
    apiKeys,        \* the apiKey table: id -> row (committed)
    now,            \* the clock new Date() reads
    req,            \* req.user, req.authType, req.permissions of each task's request
    lastData        \* the data of the response most recently sent

vars == <<balance, transactions, paystack, nDeposits, nTransfers, pc, local, lastResp,
         nConfirm, credited, users, wallets, apiKeys, now, req, lastData>>

---------------------------------------------------------------------------
(* Bounds of the model *)

MaxDeposits == 1        \* deposit requests that pass validation
MaxTransfers == 3       \* transfer requests that pass every check
MaxConfirm == 2         \* webhook deliveries that reach the update transaction
TicksPerKobo == 10      \* resolution of request amounts below one kobo

(* Program constants *)

KoboPerNaira == 100     \* Math.round(amount * 100), amount / 100
MinDeposit == 100       \* isFloat({ min: 100 })
MinTransfer == 1        \* isFloat({ min: 1 })

Tasks == {1, 2}
Users == {"u1", "u2"}
NoWallet == "none"

Naira(n) == n * KoboPerNaira * TicksPerKobo

\* prisma.wallet.findUnique({ where: { userId } }): one wallet per user
WalletOfUser(u) == IF u = "u1" THEN "wA" ELSE "wB"
Wallets == {WalletOfUser(u) : u \in Users}

\* wallet.walletNumber, a 13-digit string
WalletNumber(w) == IF w = "wA" THEN "1000000000001" ELSE "1000000000002"

\* prisma.wallet.findUnique({ where: { walletNumber } })
WalletByNumber(n) ==
    IF \E w \in Wallets : WalletNumber(w) = n
    THEN CHOOSE w \in Wallets : WalletNumber(w) = n
    ELSE NoWallet

\* body('wallet_number').isString().isLength({ min: 13, max: 13 })
WalletNumberInputs == {WalletNumber(w) : w \in Wallets} \cup {"9999999999999", "123"}
ValidWalletNumber(n) == n # "123"

ValidDepositAmount_Any(amount) == TRUE

\* body('amount').isFloat({ min: 100 }): any decimal number not below the minimum
ValidDepositAmount(amount) == amount >= Naira(MinDeposit)

\* body('amount').isFloat({ min: 1 })
ValidTransferAmount(amount) == amount >= Naira(MinTransfer)

\* request amounts, in ticks
DepositAmounts == {Naira(MinDeposit) - 1, Naira(MinDeposit), Naira(MinDeposit) + 4}
TransferAmounts == {Naira(MinTransfer) - 1, Naira(MinDeposit) \div 2}

\* references: `${root}`, `${root}_debit`, `${root}_credit`
Suffixes == {"", "_debit", "_credit"}
Ref(root, suffix) == [root |-> root, suffix |-> suffix]
MaxRefs == MaxDeposits + MaxTransfers
Roots == 1..MaxRefs

---------------------------------------------------------------------------
(* Amount conversion at the provider boundary *)

\* Math.round(x / d) for x >= 0: the nearest integer, halves upwards
RoundDiv(x, d) == (2 * x + d) \div (2 * d)

\* initializeTransaction: amountInKobo = Math.round(amount * 100)
AmountInKobo(amount) == RoundDiv(amount, TicksPerKobo)

\* paystackWebhook: amountInNaira = amount / 100
AmountInNaira(kobo) == kobo * TicksPerKobo

---------------------------------------------------------------------------
(* Task state *)

NoLocal ==
    [userId |-> "none", wallet_number |-> "none", amount |-> 0,
     senderWallet |-> NoWallet,
     recipientWallet |-> NoWallet,
     reference |-> 0, transaction |-> Ref(0, ""), walletId |-> NoWallet,
     status |-> "none", amountInNaira |-> 0,
     googleId |-> "none", walletNumber |-> "none", createdAt |-> 0,
     permissions |-> {}, expiry |-> 0, keyId |-> 0]

\* a response: the status code and the message of res.status(code).json(...);
\* where the code sends no message the branch that answered is named instead
Response(op, code, message) == [op |-> op, code |-> code, message |-> message]

\* req.user, req.authType and req.permissions, set by authenticate, the route
\* of the request and its x-api-key header (0 when it has none)
Request(route, user, authType, permissions, apiKey) ==
    [route |-> route, user |-> user, authType |-> authType, permissions |-> permissions,
     apiKey |-> apiKey]

\* a task that serves no request
NoReq == Request("none", "none", "none", {}, 0)

\* res.status(code).json({ ..., data }): the handler is finished, its locals
\* and the request object are gone
RespondData(t, op, code, message, data) ==
    /\ pc' = [pc EXCEPT ![t] = "idle"]
    /\ local' = [local EXCEPT ![t] = NoLocal]
    /\ req' = [req EXCEPT ![t] = NoReq]
    /\ lastResp' = Response(op, code, message)
    /\ lastData' = data

\* res.status(code).json(...) of a response the model keeps no data of
Respond(t, op, code, message) == RespondData(t, op, code, message, << >>)

Goto(t, label, locals) ==
    /\ pc' = [pc EXCEPT ![t] = label]
    /\ local' = [local EXCEPT ![t] = locals]
    /\ UNCHANGED <<lastResp, lastData, req>>

\* the Google identities that sign in; identity g of user u
GoogleIds == {"g1", "g2"}
GoogleIdOfUser(u) == IF u = "u1" THEN "g1" ELSE "g2"

\* rows of the user and wallet tables
UserRow(id, googleId) == [id |-> id, googleId |-> googleId]
WalletRow(userId, walletNumber) ==
    [id |-> WalletOfUser(userId), userId |-> userId, walletNumber |-> walletNumber]

\* no API key, the clock at its start, no request
InitApi ==
    /\ apiKeys = << >>
    /\ now = 0
    /\ req = [t \in Tasks |-> NoReq]
    /\ lastData = << >>

\* the state of the ledger before any request; Init takes both users to have
\* signed in
InitRequests ==
    /\ balance = [w \in Wallets |-> 0]
    /\ transactions = << >>
    /\ paystack = << >>
    /\ nDeposits = 0
    /\ nTransfers = 0
    /\ pc = [t \in Tasks |-> "idle"]
    /\ local = [t \in Tasks |-> NoLocal]
    /\ lastResp = Response("none", 0, "")
    /\ nConfirm = 0
    /\ credited = [r \in Roots |-> 0]
    /\ InitApi

Init ==
    /\ InitRequests
    /\ users = {UserRow(u, GoogleIdOfUser(u)) : u \in Users}
    /\ wallets = {WalletRow(u, WalletNumber(WalletOfUser(u))) : u \in Users}

---------------------------------------------------------------------------
(* Row locks taken by the UPDATE statements of the open transactions *)

\* the wallet rows task t has updated inside its open prisma.$transaction
HeldWallets(t) ==
    CASE pc[t] = "transfer_credit" -> {local[t].senderWallet}
      [] pc[t] \in {"transfer_createDebit", "transfer_createCredit"} ->
            {local[t].senderWallet, local[t].recipientWallet}
      [] OTHER -> {}

\* the transaction rows task t has updated inside its open prisma.$transaction
HeldTransactions(t) ==
    IF pc[t] = "webhook_credit" THEN {local[t].transaction} ELSE {}

\* the wallet row the next statement of task t has to lock
WantedWallets(t) ==
    CASE pc[t] = "webhook_credit" -> {local[t].walletId}
      [] pc[t] = "transfer_debit" -> {local[t].senderWallet}
      [] pc[t] = "transfer_credit" -> {local[t].recipientWallet}
      [] OTHER -> {}

WalletFree(t, w) == \A o \in Tasks \ {t} : w \notin HeldWallets(o)
TransactionFree(t, ref) == \A o \in Tasks \ {t} : ref \notin HeldTransactions(o)

\* a new request is served by the first free task
FreeTask(t) == pc[t] = "idle" /\ \A o \in Tasks : pc[o] = "idle" => t <= o

---------------------------------------------------------------------------
\* generateTransactionReference(): TXN_<Date.now()>_<8 random bytes>.  Spec takes
\* every call to return a reference no earlier call returned
NextReference == nDeposits + nTransfers + 1

\* the unique constraint on transaction.reference: an insert of a reference the
\* table holds is refused
ReferenceTaken(ref) == ref \in DOMAIN transactions

(* depositFunds *)

\* validationResult, prisma.wallet.findUnique, generateTransactionReference
\* returning `reference`
DepositFunds_EnterUpTo(t, u, reference, maxDeposits) ==
    /\ \E amount \in DepositAmounts :
        IF ~ValidDepositAmount(amount)
        THEN /\ Respond(t, "deposit", 400, "validation")
             /\ UNCHANGED nDeposits
        ELSE /\ nDeposits < maxDeposits
             /\ nDeposits' = nDeposits + 1
             /\ Goto(t, "deposit_initialize",
                     [NoLocal EXCEPT !.userId = u, !.amount = amount,
                                     !.walletId = WalletOfUser(u),
                                     !.reference = reference])
    /\ UNCHANGED <<balance, transactions, paystack, nTransfers, nConfirm, credited, users, wallets, apiKeys, now>>

\* the handler while fewer than MaxDeposits deposits have been accepted
DepositFunds_Enter(t, u, reference) == DepositFunds_EnterUpTo(t, u, reference, MaxDeposits)

\* a request of any user, served by a free task
DepositFunds_Start(t, reference) ==
    /\ FreeTask(t)
    /\ \E u \in Users : DepositFunds_Enter(t, u, reference)

DepositFunds_Begin(t) == DepositFunds_Start(t, NextReference)

DepositFunds_Initialize_IgnoresFailure(t) ==
    /\ pc[t] = "deposit_initialize"
    /\ \/ paystack' = (local[t].reference :> AmountInKobo(local[t].amount)) @@ paystack
       \/ UNCHANGED paystack
    /\ Goto(t, "deposit_create", local[t])
    /\ UNCHANGED <<balance, transactions, nDeposits, nTransfers, nConfirm, credited, users, wallets, apiKeys, now>>

\* initializeTransaction(wallet.user.email, amount, reference)
DepositFunds_Initialize(t) ==
    /\ pc[t] = "deposit_initialize"
    /\ \/ /\ paystack' = (local[t].reference :> AmountInKobo(local[t].amount)) @@ paystack
          /\ Goto(t, "deposit_create", local[t])
       \/ /\ Respond(t, "deposit", 500, "paystack")
          /\ UNCHANGED paystack
    /\ UNCHANGED <<balance, transactions, nDeposits, nTransfers, nConfirm, credited, users, wallets, apiKeys, now>>

\* the createdAt of a row: the clock when its create statement runs
CreatedAt == now

DepositEntry(l) ==
    [type |-> "DEPOSIT", amount |-> l.amount, status |-> "PENDING",
     walletId |-> l.walletId, recipientWalletId |-> NoWallet,
     createdAt |-> l.createdAt]

DepositFunds_Create_Credits(t) ==
    /\ pc[t] = "deposit_create"
    /\ transactions' = (Ref(local[t].reference, "") :>
                            DepositEntry([local[t] EXCEPT !.createdAt = CreatedAt])) @@ transactions
    /\ balance' = [balance EXCEPT ![local[t].walletId] = @ + local[t].amount]
    /\ Respond(t, "deposit", 200, "Payment initialized")
    /\ UNCHANGED <<paystack, nDeposits, nTransfers, nConfirm, credited, users, wallets, apiKeys, now>>

\* prisma.transaction.create({ ... status: 'PENDING' ... })
DepositFunds_Create(t) ==
    /\ pc[t] = "deposit_create"
    /\ \/ /\ ~ReferenceTaken(Ref(local[t].reference, ""))
          /\ transactions' = (Ref(local[t].reference, "") :>
                                  DepositEntry([local[t] EXCEPT !.createdAt = CreatedAt])) @@ transactions
          /\ Respond(t, "deposit", 200, "Payment initialized")
       \/ /\ Respond(t, "deposit", 500, "Failed to initialize deposit")
          /\ UNCHANGED transactions
    /\ UNCHANGED <<balance, paystack, nDeposits, nTransfers, nConfirm, credited, users, wallets, apiKeys, now>>

---------------------------------------------------------------------------
(* paystackWebhook *)

Events == {"charge.success", "charge.failed"}
Statuses == {"success", "failed"}

\* the parsed request body: body.event and body.data.{reference, amount, status}
Payload(event, reference, status, amount) ==
    [event |-> event, reference |-> reference, status |-> status, amount |-> amount]

\* config.paystack.secretKey, and a key that is not the secret
SecretKey == "sk_secret"
OtherKey == "sk_other"

\* crypto.createHmac('sha512', key).update(requestBody).digest('hex'): two
\* digests are equal exactly when key and body are
Hmac(key, requestBody) == [key |-> key, body |-> requestBody]

\* no x-paystack-signature header
NoSignature == Hmac("none", Payload("none", Ref(0, ""), "none", 0))

\* the signatures a request with this body may carry: none, the provider's,
\* one made with another key, and the provider's signature of another body
Signatures(body) ==
    {NoSignature, Hmac(SecretKey, body), Hmac(OtherKey, body),
     Hmac(SecretKey, [body EXCEPT !.event = "charge.pending"])}

VerifyWebhookSignature_AcceptsAny(requestBody, paystackSignature) == TRUE

\* verifyWebhookSignature: hash === paystackSignature
VerifyWebhookSignature(requestBody, paystackSignature) ==
    Hmac(SecretKey, requestBody) = paystackSignature

\* the amount a signed charge event carries: what the provider was asked to charge
WebhookAmounts(ref) ==
    IF ref.suffix = "" /\ ref.root \in DOMAIN paystack
    THEN {paystack[ref.root]}
    ELSE {AmountInKobo(Naira(MinDeposit))}

AlreadyProcessed_Never(transaction) == FALSE

\* if (transaction.status === 'SUCCESS'): the idempotency check
AlreadyProcessed(transaction) == transaction.status = "SUCCESS"

\* the references a delivery may name: those the provider was given, those of
\* the transaction table, and one that is neither
WebhookReferences ==
    {Ref(r, "") : r \in DOMAIN paystack} \cup DOMAIN transactions \cup {Ref(0, "")}

\* the request bodies a delivery may have; an event of a failed charge carries
\* the status 'failed'
WebhookPayloads ==
    UNION {{body \in {Payload(event, ref, status, amount) :
                        event \in Events, status \in Statuses,
                        amount \in WebhookAmounts(ref)} :
               body.event = "charge.success" \/ body.status = "failed"} :
           ref \in WebhookReferences}

\* a row no lookup returns: the null of prisma.transaction.findUnique
NoTransaction ==
    [type |-> "none", amount |-> 0, status |-> "none",
     walletId |-> NoWallet, recipientWalletId |-> NoWallet, createdAt |-> 0]

\* prisma.transaction.findUnique({ where: { reference } })
FindTransaction(reference) ==
    IF reference \in DOMAIN transactions THEN transactions[reference] ELSE NoTransaction

NotFound_Never(transaction) == FALSE

\* if (!transaction)
NotFound(transaction) == transaction = NoTransaction

WebhookAccepted == Response("webhook", 0, "accepted")

IsChargeSuccess_Any(body) == TRUE

\* if (body.event === 'charge.success')
IsChargeSuccess(body) == body.event = "charge.success"

\* the checks of paystackWebhook in the order of the code: the response that
\* ends the request, or WebhookAccepted when it goes on to the transaction
WebhookOutcome(body, paystackSignature) ==
    IF paystackSignature = NoSignature THEN
        Response("webhook", 400, "No signature")
    ELSE IF ~VerifyWebhookSignature(body, paystackSignature) THEN
        Response("webhook", 400, "Invalid signature")
    ELSE IF ~IsChargeSuccess(body) THEN
        Response("webhook", 200, "ignored")
    ELSE IF NotFound(FindTransaction(body.reference)) THEN
        Response("webhook", 404, "Transaction not found")
    ELSE IF AlreadyProcessed(FindTransaction(body.reference)) THEN
        Response("webhook", 200, "Already processed")
    ELSE WebhookAccepted

\* signature and event checks, prisma.transaction.findUnique, idempotency check,
\* for a request with this body and this signature header
PaystackWebhook_Start(t, body, paystackSignature) ==
    /\ FreeTask(t)
    /\  LET outcome == WebhookOutcome(body, paystackSignature)
        IN  IF outcome # WebhookAccepted THEN
                /\ Respond(t, outcome.op, outcome.code, outcome.message)
                /\ UNCHANGED nConfirm
            ELSE
                /\ nConfirm < MaxConfirm
                /\ nConfirm' = nConfirm + 1
                /\ Goto(t, "webhook_update",
                        [NoLocal EXCEPT !.transaction = body.reference,
                                        !.walletId = FindTransaction(body.reference).walletId,
                                        !.status = body.status,
                                        !.amountInNaira = AmountInNaira(body.amount)])
    /\ UNCHANGED <<balance, transactions, paystack, nDeposits, nTransfers, credited, users, wallets, apiKeys, now>>

\* a request without the signature header is answered before its body is
\* looked at; any other request has a body and a signature
PaystackWebhook_Begin(t) ==
    \/ PaystackWebhook_Start(t, NoSignature.body, NoSignature)
    \/ \E body \in WebhookPayloads : \E paystackSignature \in Signatures(body) \ {NoSignature} :
          PaystackWebhook_Start(t, body, paystackSignature)

NewStatus_AlwaysSuccess(status) == "SUCCESS"

\* status: status === 'success' ? 'SUCCESS' : 'FAILED'
NewStatus(status) == IF status = "success" THEN "SUCCESS" ELSE "FAILED"

\* tx.transaction.update({ where: { id }, data: { status } }); when the status
\* is not 'success' the callback ends here and the transaction commits
PaystackWebhook_UpdateStatus(t) ==
    /\ pc[t] = "webhook_update"
    /\ TransactionFree(t, local[t].transaction)
    /\ IF local[t].status = "success"
       THEN /\ Goto(t, "webhook_credit", local[t])
            /\ UNCHANGED transactions
       ELSE /\ transactions' = [transactions EXCEPT
                    ![local[t].transaction].status = NewStatus(local[t].status)]
            /\ Respond(t, "webhook", 200, "failed recorded")
    /\ UNCHANGED <<balance, paystack, nDeposits, nTransfers, nConfirm, credited, users, wallets, apiKeys, now>>

CreditBalances_Overwrite(l) ==
    [balance EXCEPT ![l.walletId] = l.amountInNaira]

\* data: { balance: { increment: amountInNaira } }: the store adds to the row's
\* current balance in one UPDATE statement
CreditBalances(l) ==
    [balance EXCEPT ![l.walletId] = @ + l.amountInNaira]

PaystackWebhook_CreditWallet_WholeWallet(t) ==
    /\ pc[t] = "webhook_credit"
    /\ WalletFree(t, local[t].walletId)
    /\ transactions' = [ref \in DOMAIN transactions |->
            IF transactions[ref].walletId = local[t].walletId
               /\ transactions[ref].type = "DEPOSIT"
            THEN [transactions[ref] EXCEPT !.status = NewStatus(local[t].status)]
            ELSE transactions[ref]]
    /\ balance' = CreditBalances(local[t])
    /\ credited' = [credited EXCEPT ![local[t].transaction.root] = @ + 1]
    /\ Respond(t, "webhook", 200, "credited")
    /\ UNCHANGED <<paystack, nDeposits, nTransfers, nConfirm, users, wallets, apiKeys, now>>

\* tx.wallet.update({ data: { balance: { increment: amountInNaira } } }) and commit
PaystackWebhook_CreditWallet(t) ==
    /\ pc[t] = "webhook_credit"
    /\ WalletFree(t, local[t].walletId)
    /\ transactions' = [transactions EXCEPT
            ![local[t].transaction].status = NewStatus(local[t].status)]
    /\ balance' = CreditBalances(local[t])
    /\ credited' = [credited EXCEPT ![local[t].transaction.root] = @ + 1]
    /\ Respond(t, "webhook", 200, "credited")
    /\ UNCHANGED <<paystack, nDeposits, nTransfers, nConfirm, users, wallets, apiKeys, now>>

PaystackWebhook_Fail_KeepsStatus(t) ==
    /\ pc[t] \in {"webhook_update", "webhook_credit"}
    /\ transactions' =
            IF pc[t] = "webhook_credit"
            THEN [transactions EXCEPT
                    ![local[t].transaction].status = NewStatus(local[t].status)]
            ELSE transactions
    /\ Respond(t, "webhook", 500, "Webhook processing failed")
    /\ UNCHANGED <<balance, paystack, nDeposits, nTransfers, nConfirm, credited, users, wallets, apiKeys, now>>

\* a statement of the transaction throws: rollback, catch, 500
PaystackWebhook_Fail(t) ==
    /\ pc[t] \in {"webhook_update", "webhook_credit"}
    /\ Respond(t, "webhook", 500, "Webhook processing failed")
    /\ UNCHANGED <<balance, transactions, paystack, nDeposits, nTransfers, nConfirm, credited, users, wallets, apiKeys, now>>

---------------------------------------------------------------------------
(* transferFunds *)

InsufficientBalance_OrEqual(senderBalance, amount) == senderBalance <= amount

\* parseFloat(senderWallet.balance.toString()) < amount
InsufficientBalance(senderBalance, amount) == senderBalance < amount

SelfTransfer_Never(senderId, recipientId) == FALSE

\* senderWallet.id === recipientWallet.id
SelfTransfer(senderId, recipientId) == senderId = recipientId

Accepted == Response("transfer", 0, "accepted")

\* the checks of transferFunds in the order of the code: the response that ends
\* the request, or Accepted when the request goes on to the transaction
TransferOutcome(senderWallet, recipientWallet, wallet_number, amount) ==
    IF ~ValidWalletNumber(wallet_number) \/ ~ValidTransferAmount(amount) THEN
        Response("transfer", 400, "validation")
    ELSE IF recipientWallet = NoWallet THEN
        Response("transfer", 404, "Recipient wallet not found")
    ELSE IF SelfTransfer(senderWallet.id, recipientWallet) THEN
        Response("transfer", 400, "Cannot transfer to your own wallet")
    ELSE IF InsufficientBalance(senderWallet.balance, amount) THEN
        Response("transfer", 400, "Insufficient balance")
    ELSE Accepted

\* the wallet row prisma.wallet.findUnique({ where: { userId } }) returns
SenderWallet(u) == [id |-> WalletOfUser(u), balance |-> balance[WalletOfUser(u)]]

\* validationResult, both prisma.wallet.findUnique lookups, the self-transfer and
\* balance checks, generateTransactionReference.  The checks read only the row
\* the first lookup returned and the identities of the wallets, which never
\* change, so they are decided at the moment of that lookup.
TransferFunds_Enter(t, u, reference) ==
    /\ \E n \in WalletNumberInputs, amount \in TransferAmounts :
       LET outcome == TransferOutcome(SenderWallet(u), WalletByNumber(n), n, amount)
       IN  IF outcome # Accepted THEN
               /\ Respond(t, outcome.op, outcome.code, outcome.message)
               /\ UNCHANGED nTransfers
           ELSE
               /\ nTransfers < MaxTransfers
               /\ nTransfers' = nTransfers + 1
               /\ Goto(t, "transfer_debit",
                       [NoLocal EXCEPT !.userId = u, !.wallet_number = n,
                                       !.amount = amount,
                                       !.senderWallet = WalletOfUser(u),
                                       !.recipientWallet = WalletByNumber(n),
                                       !.reference = reference])
    /\ UNCHANGED <<balance, transactions, paystack, nDeposits, nConfirm, credited, users, wallets, apiKeys, now>>

\* a request of any user, served by a free task
TransferFunds_Start(t, reference) ==
    /\ FreeTask(t)
    /\ \E u \in Users : TransferFunds_Enter(t, u, reference)

TransferFunds_Begin(t) == TransferFunds_Start(t, NextReference)

\* tx.wallet.update({ where: { id: senderWallet.id }, data: { balance: { decrement } } })
TransferFunds_Debit(t) ==
    /\ pc[t] = "transfer_debit"
    /\ WalletFree(t, local[t].senderWallet)
    /\ Goto(t, "transfer_credit", local[t])
    /\ UNCHANGED <<balance, transactions, paystack, nDeposits, nTransfers, nConfirm, credited, users, wallets, apiKeys, now>>

\* tx.wallet.update({ where: { id: recipientWallet.id }, data: { balance: { increment } } })
TransferFunds_Credit(t) ==
    /\ pc[t] = "transfer_credit"
    /\ WalletFree(t, local[t].recipientWallet)
    /\ Goto(t, "transfer_createDebit", local[t])
    /\ UNCHANGED <<balance, transactions, paystack, nDeposits, nTransfers, nConfirm, credited, users, wallets, apiKeys, now>>

TransferFunds_CreateDebit_SkipDuplicates(t) ==
    /\ pc[t] = "transfer_createDebit"
    /\ Goto(t, "transfer_createCredit", local[t])
    /\ UNCHANGED <<balance, transactions, paystack, nDeposits, nTransfers, nConfirm, credited, users, wallets, apiKeys, now>>

\* tx.transaction.create({ reference: `${reference}_debit`, amount: -amount, ... })
TransferFunds_CreateDebit(t) ==
    /\ pc[t] = "transfer_createDebit"
    /\ ~ReferenceTaken(Ref(local[t].reference, "_debit"))
    /\ Goto(t, "transfer_createCredit", [local[t] EXCEPT !.createdAt = CreatedAt])
    /\ UNCHANGED <<balance, transactions, paystack, nDeposits, nTransfers, nConfirm, credited, users, wallets, apiKeys, now>>

DebitEntry_Pending(l) ==
    [type |-> "TRANSFER", amount |-> 0 - l.amount, status |-> "PENDING",
     walletId |-> l.senderWallet, recipientWalletId |-> l.recipientWallet,
     createdAt |-> l.createdAt]

DebitEntry(l) ==
    [type |-> "TRANSFER", amount |-> 0 - l.amount, status |-> "SUCCESS",
     walletId |-> l.senderWallet, recipientWalletId |-> l.recipientWallet,
     createdAt |-> l.createdAt]

CreditEntry(l) ==
    [type |-> "TRANSFER", amount |-> l.amount, status |-> "SUCCESS",
     walletId |-> l.recipientWallet, recipientWalletId |-> l.senderWallet,
     createdAt |-> l.createdAt]

TransferBalances_NoDebit(l) ==
    [balance EXCEPT ![l.recipientWallet] = @ + l.amount]

TransferBalances_NoCredit(l) ==
    [balance EXCEPT ![l.senderWallet] = @ - l.amount]

\* the balances the transaction's two updates leave at its commit
TransferBalances(l) ==
    [balance EXCEPT ![l.senderWallet] = @ - l.amount,
                    ![l.recipientWallet] = @ + l.amount]

\* tx.transaction.create({ reference: `${reference}_credit`, amount, ... }), the
\* commit of prisma.$transaction, and the success response
TransferFunds_CreateCredit(t) ==
    /\ pc[t] = "transfer_createCredit"
    /\ ~ReferenceTaken(Ref(local[t].reference, "_credit"))
    /\ balance' = TransferBalances(local[t])
    /\ transactions' = (Ref(local[t].reference, "_debit") :> DebitEntry(local[t]))
                    @@ (Ref(local[t].reference, "_credit") :>
                            CreditEntry([local[t] EXCEPT !.createdAt = CreatedAt]))
                    @@ transactions
    /\ Respond(t, "transfer", 200, "Transfer completed successfully")
    /\ UNCHANGED <<paystack, nDeposits, nTransfers, nConfirm, credited, users, wallets, apiKeys, now>>

TransferFunds_Fail_KeepsDebit(t) ==
    /\ pc[t] \in {"transfer_debit", "transfer_credit",
                  "transfer_createDebit", "transfer_createCredit"}
    /\ balance' = IF pc[t] = "transfer_debit" THEN balance
                  ELSE [balance EXCEPT ![local[t].senderWallet] = @ - local[t].amount]
    /\ Respond(t, "transfer", 500, "Transfer failed")
    /\ UNCHANGED <<transactions, paystack, nDeposits, nTransfers, nConfirm, credited, users, wallets, apiKeys, now>>

\* a statement of the transaction throws (store error, deadlock victim,
\* transaction timeout): rollback, catch, 500
TransferFunds_Fail(t) ==
    /\ pc[t] \in {"transfer_debit", "transfer_credit",
                  "transfer_createDebit", "transfer_createCredit"}
    /\ Respond(t, "transfer", 500, "Transfer failed")
    /\ UNCHANGED <<balance, transactions, paystack, nDeposits, nTransfers, nConfirm, credited, users, wallets, apiKeys, now>>

---------------------------------------------------------------------------

Next ==
    \E t \in Tasks :
        \/ DepositFunds_Begin(t)
        \/ DepositFunds_Initialize(t)
        \/ DepositFunds_Create(t)
        \/ PaystackWebhook_Begin(t)
        \/ PaystackWebhook_UpdateStatus(t)
        \/ PaystackWebhook_CreditWallet(t)
        \/ PaystackWebhook_Fail(t)
        \/ TransferFunds_Begin(t)
        \/ TransferFunds_Debit(t)
        \/ TransferFunds_Credit(t)
        \/ TransferFunds_CreateDebit(t)
        \/ TransferFunds_CreateCredit(t)
        \/ TransferFunds_Fail(t)

Spec == Init /\ [][Next]_vars

---------------------------------------------------------------------------
(* Deliveries of one confirmation in sequence: a delivery starts only when  *)
(* no other delivery is being processed, and every delivery reports        *)
(* status 'success'.                                                       *)

NoWebhookInFlight == \A o \in Tasks : pc[o] \notin {"webhook_update", "webhook_credit"}

SequentialNext ==
    \E t \in Tasks :
        \/ DepositFunds_Begin(t)
        \/ DepositFunds_Initialize(t)
        \/ DepositFunds_Create(t)
        \/ /\ NoWebhookInFlight
           /\ PaystackWebhook_Begin(t)
           /\ local'[t].status # "failed"
        \/ PaystackWebhook_UpdateStatus(t)
        \/ PaystackWebhook_CreditWallet(t)
        \/ PaystackWebhook_Fail(t)

SpecSequential == Init /\ [][SequentialNext]_vars

---------------------------------------------------------------------------
(* References that repeat: generateTransactionReference draws its reference at *)
(* random, so a call may return a reference that is in use.  Here a transfer   *)
(* gets a new reference or the reference of an earlier transfer; a deposit was *)
(* requested before and is confirmed by genuine deliveries, one at a time.     *)

\* the charge.success event the provider signs for an initialized payment
GenuineSuccess(root) == Payload("charge.success", Ref(root, ""), "success", paystack[root])

\* a genuine delivery: the provider's event with the provider's signature
PaystackWebhook_BeginSigned(t) ==
    \E root \in DOMAIN paystack :
        PaystackWebhook_Start(t, GenuineSuccess(root), Hmac(SecretKey, GenuineSuccess(root)))

PaystackWebhook_BeginGenuine(t) ==
    /\ NoWebhookInFlight
    /\ PaystackWebhook_BeginSigned(t)

TransferRoots == {ref.root : ref \in {x \in DOMAIN transactions : x.suffix # ""}}

TransferFunds_BeginAnyReference(t) ==
    \E reference \in {NextReference} \cup TransferRoots :
        TransferFunds_Start(t, reference)

\* the state after one depositFunds request of the minimum amount by user u:
\* the payment is initialized and its PENDING entry is recorded
InitDeposited ==
    \E u \in Users :
        /\ balance = [w \in Wallets |-> 0]
        /\ paystack = (1 :> AmountInKobo(Naira(MinDeposit)))
        /\ transactions = (Ref(1, "") :>
               DepositEntry([NoLocal EXCEPT !.amount = Naira(MinDeposit),
                                            !.walletId = WalletOfUser(u)]))
        /\ nDeposits = 1
        /\ nTransfers = 0
        /\ pc = [t \in Tasks |-> "idle"]
        /\ local = [t \in Tasks |-> NoLocal]
        /\ lastResp = Response("deposit", 200, "Payment initialized")
        /\ nConfirm = 0
        /\ credited = [r \in Roots |-> 0]
        /\ users = {UserRow(x, GoogleIdOfUser(x)) : x \in Users}
        /\ wallets = {WalletRow(x, WalletNumber(WalletOfUser(x))) : x \in Users}
        /\ InitApi

AnyReferenceNext ==
    \E t \in Tasks :
        \/ PaystackWebhook_BeginGenuine(t)
        \/ PaystackWebhook_UpdateStatus(t)
        \/ PaystackWebhook_CreditWallet(t)
        \/ PaystackWebhook_Fail(t)
        \/ TransferFunds_BeginAnyReference(t)
        \/ TransferFunds_Debit(t)
        \/ TransferFunds_Credit(t)
        \/ TransferFunds_CreateDebit(t)
        \/ TransferFunds_CreateCredit(t)
        \/ TransferFunds_Fail(t)

SpecAnyReference == InitDeposited /\ [][AnyReferenceNext]_vars

----------------------------------------------------------------------------
(* Deposits and their deliveries alone: no transfer runs.                     *)

DepositNext ==
    \E t \in Tasks :
        \/ DepositFunds_Begin(t)
        \/ DepositFunds_Initialize(t)
        \/ DepositFunds_Create(t)
        \/ PaystackWebhook_Begin(t)
        \/ PaystackWebhook_UpdateStatus(t)
        \/ PaystackWebhook_CreditWallet(t)
        \/ PaystackWebhook_Fail(t)

SpecDeposit == Init /\ [][DepositNext]_vars

----------------------------------------------------------------------------
(* Transfers and genuine deliveries, concurrent, after a deposit was          *)
(* requested.                                                                 *)

LedgerNext ==
    \E t \in Tasks :
        \/ PaystackWebhook_BeginSigned(t)
        \/ PaystackWebhook_UpdateStatus(t)
        \/ PaystackWebhook_CreditWallet(t)
        \/ PaystackWebhook_Fail(t)
        \/ TransferFunds_Begin(t)
        \/ TransferFunds_Debit(t)
        \/ TransferFunds_Credit(t)
        \/ TransferFunds_CreateDebit(t)
        \/ TransferFunds_CreateCredit(t)
        \/ TransferFunds_Fail(t)

SpecLedger == InitDeposited /\ [][LedgerNext]_vars

---------------------------------------------------------------------------
(* The reads: checkDepositStatus, getBalance, getTransactions *)

MaxTime == 2            \* ticks of the clock
MaxJournal == 2         \* transfers that add entries to the journal that is read

\* time passes
Tick ==
    /\ now < MaxTime
    /\ now' = now + 1
    /\ UNCHANGED <<balance, transactions, paystack, nDeposits, nTransfers, pc, local, lastResp,
                   lastData, nConfirm, credited, users, wallets, apiKeys, req>>

\* the references a status request may name: those of the table and one of no entry
StatusReferences == DOMAIN transactions \cup {Ref(0, "")}

\* transaction.status.toLowerCase(), transaction.type.toLowerCase()
ToLowerCase(x) ==
    CASE x = "PENDING" -> "pending" [] x = "SUCCESS" -> "success" [] x = "FAILED" -> "failed"
      [] x = "DEPOSIT" -> "deposit" [] x = "TRANSFER" -> "transfer"

\* data: { reference, status, amount, type, created_at }
StatusData(reference) ==
    [reference |-> reference, status |-> ToLowerCase(transactions[reference].status),
     amount |-> transactions[reference].amount, type |-> ToLowerCase(transactions[reference].type),
     createdAt |-> transactions[reference].createdAt]

CheckDepositStatus_Enter_Credits(t, userId, reference) ==
    /\ reference \in DOMAIN transactions
    /\ transactions' = [transactions EXCEPT ![reference].status = "SUCCESS"]
    /\ balance' = [balance EXCEPT ![transactions[reference].walletId] = @ + transactions[reference].amount]
    /\ RespondData(t, "status", 200, "data", <<StatusData(reference)>>)
    /\ UNCHANGED <<paystack, nDeposits, nTransfers, nConfirm, credited, users, wallets, apiKeys, now>>

OwnsTransaction_Any(transaction, userId) == TRUE

\* transaction.wallet.userId === userId: the wallet of the entry is the
\* caller's, every user having one wallet
OwnsTransaction(transaction, userId) == transaction.walletId = WalletOfUser(userId)

\* checkDepositStatus of user userId for req.params.reference:
\* prisma.transaction.findUnique, the owner check, the response
CheckDepositStatus_Enter(t, userId, reference) ==
    /\ IF NotFound(FindTransaction(reference)) THEN
            Respond(t, "status", 404, "Transaction not found")
       ELSE IF ~OwnsTransaction(FindTransaction(reference), userId) THEN
            Respond(t, "status", 403, "Unauthorized")
       ELSE
            RespondData(t, "status", 200, "data", <<StatusData(reference)>>)
    /\ UNCHANGED <<balance, transactions, paystack, nDeposits, nTransfers, nConfirm, credited,
                   users, wallets, apiKeys, now>>

CheckDepositStatus_Begin(t) ==
    /\ FreeTask(t)
    /\ \E userId \in Users, reference \in StatusReferences :
          CheckDepositStatus_Enter(t, userId, reference)

\* data: { balance, wallet_number }
BalanceData(w) == [balance |-> balance[w], wallet_number |-> WalletNumber(w)]

\* getBalance of user userId: prisma.wallet.findUnique, the response
GetBalance_Enter(t, userId) ==
    /\ RespondData(t, "balance", 200, "data", <<BalanceData(WalletOfUser(userId))>>)
    /\ UNCHANGED <<balance, transactions, paystack, nDeposits, nTransfers, nConfirm, credited,
                   users, wallets, apiKeys, now>>

GetBalance_Begin(t) ==
    /\ FreeTask(t)
    /\ \E userId \in Users : GetBalance_Enter(t, userId)

\* getTransactions of user userId: prisma.wallet.findUnique
GetTransactions_Enter(t, userId) ==
    /\ Goto(t, "transactions_findMany",
            [NoLocal EXCEPT !.userId = userId, !.walletId = WalletOfUser(userId)])
    /\ UNCHANGED <<balance, transactions, paystack, nDeposits, nTransfers, nConfirm, credited,
                   users, wallets, apiKeys, now>>

GetTransactions_Begin(t) ==
    /\ FreeTask(t)
    /\ \E userId \in Users : GetTransactions_Enter(t, userId)

MatchesWallet_Any(reference, walletId) == TRUE

\* where: { walletId: wallet.id }
MatchesWallet(reference, walletId) == transactions[reference].walletId = walletId

\* orderBy: { createdAt: 'desc' }: the orders of the rows S the store may
\* return; rows of one createdAt come in any order
RECURSIVE NewestFirst(_)
NewestFirst(S) ==
    IF S = {} THEN {<< >>}
    ELSE UNION {{<<x>> \o rest : rest \in NewestFirst(S \ {x})} :
                x \in {y \in S : \A z \in S :
                            transactions[y].createdAt >= transactions[z].createdAt}}

\* select: { reference, type, amount, status, createdAt }
SelectedRow(reference) ==
    [reference |-> reference, type |-> transactions[reference].type,
     amount |-> transactions[reference].amount, status |-> transactions[reference].status,
     createdAt |-> transactions[reference].createdAt]

\* prisma.transaction.findMany({ where, orderBy, select }) and the response
GetTransactions_FindMany(t) ==
    /\ pc[t] = "transactions_findMany"
    /\ \E found \in NewestFirst({reference \in DOMAIN transactions :
                                    MatchesWallet(reference, local[t].walletId)}) :
          RespondData(t, "transactions", 200, "data",
                      [i \in 1..Len(found) |-> SelectedRow(found[i])])
    /\ UNCHANGED <<balance, transactions, paystack, nDeposits, nTransfers, nConfirm, credited,
                   users, wallets, apiKeys, now>>

\* no request is being served
AllIdle == \A o \in Tasks : pc[o] = "idle"

\* the reads run while transfers and genuine deliveries are served one at a
\* time: a read runs alone or concurrently with one of them
ReadNext ==
    \E t \in Tasks :
        \/ CheckDepositStatus_Begin(t)
        \/ GetBalance_Begin(t)
        \/ GetTransactions_Begin(t)
        \/ GetTransactions_FindMany(t)
        \/ AllIdle /\ PaystackWebhook_BeginSigned(t)
        \/ PaystackWebhook_UpdateStatus(t)
        \/ PaystackWebhook_CreditWallet(t)
        \/ PaystackWebhook_Fail(t)
        \/ AllIdle /\ nTransfers < MaxJournal /\ TransferFunds_Begin(t)
        \/ TransferFunds_Debit(t)
        \/ TransferFunds_Credit(t)
        \/ TransferFunds_CreateDebit(t)
        \/ TransferFunds_CreateCredit(t)
        \/ TransferFunds_Fail(t)

SpecRead == InitDeposited /\ [][ReadNext]_vars

\* the state after the deposit of InitDeposited was confirmed by one genuine
\* delivery: the entry is SUCCESS and the wallet is credited
InitFunded ==
    \E u \in Users :
        /\ balance = [w \in Wallets |->
                IF w = WalletOfUser(u)
                THEN AmountInNaira(AmountInKobo(Naira(MinDeposit))) ELSE 0]
        /\ paystack = (1 :> AmountInKobo(Naira(MinDeposit)))
        /\ transactions = (Ref(1, "") :>
               [DepositEntry([NoLocal EXCEPT !.amount = Naira(MinDeposit),
                                             !.walletId = WalletOfUser(u)])
                    EXCEPT !.status = "SUCCESS"])
        /\ nDeposits = 1
        /\ nTransfers = 0
        /\ pc = [t \in Tasks |-> "idle"]
        /\ local = [t \in Tasks |-> NoLocal]
        /\ lastResp = Response("webhook", 200, "credited")
        /\ nConfirm = 1
        /\ credited = [r \in Roots |-> IF r = 1 THEN 1 ELSE 0]
        /\ users = {UserRow(x, GoogleIdOfUser(x)) : x \in Users}
        /\ wallets = {WalletRow(x, WalletNumber(WalletOfUser(x))) : x \in Users}
        /\ InitApi

\* the journal grows by transfers, one at a time, while time passes and
\* getTransactions reads it
JournalNext ==
    \/ Tick
    \/ \E t \in Tasks :
        \/ GetTransactions_Begin(t)
        \/ GetTransactions_FindMany(t)
        \/ AllIdle /\ nTransfers < MaxJournal /\ TransferFunds_Begin(t)
        \/ TransferFunds_Debit(t)
        \/ TransferFunds_Credit(t)
        \/ TransferFunds_CreateDebit(t)
        \/ TransferFunds_CreateCredit(t)
        \/ TransferFunds_Fail(t)

SpecJournal == InitFunded /\ [][JournalNext]_vars

----------------------------------------------------------------------------
(* Transfers after a confirmed deposit, and webhook requests that name the    *)
(* reference of a transfer entry, with every event, status and signature.     *)

PaystackWebhook_BeginTransferReference(t) ==
    \E body \in {b \in WebhookPayloads : b.reference.suffix # ""} :
        \E paystackSignature \in Signatures(body) \ {NoSignature} :
            PaystackWebhook_Start(t, body, paystackSignature)

TransferReferenceNext ==
    \E t \in Tasks :
        \/ PaystackWebhook_BeginTransferReference(t)
        \/ TransferFunds_Begin(t)
        \/ TransferFunds_Debit(t)
        \/ TransferFunds_Credit(t)
        \/ TransferFunds_CreateDebit(t)
        \/ TransferFunds_CreateCredit(t)
        \/ TransferFunds_Fail(t)

SpecTransferReference == InitFunded /\ [][TransferReferenceNext]_vars

---------------------------------------------------------------------------
(* API keys (the apiKey controller) and the authenticate and                 *)
(* requirePermission middleware (middlwware/auth.ts).  A request is served   *)
(* in steps: authenticate reads the store and, after its awaits, the         *)
(* permission check and the handler's code up to its first await run.        *)

MaxActiveKeys == 5      \* if (activeKeysCount >= 5)

\* body('permissions.*').isIn(['deposit', 'transfer', 'read'])
Permissions == {"deposit", "transfer", "read"}

\* generateApiKey(): the plain key made for the row with this id; every call
\* returns a key no other call returned
PlainKey(id) == id

\* a key that was never generated
UnknownKey == 0

\* bcrypt.hash(plainKey, 10)
BcryptHash(plainKey) == [hash |-> plainKey]

\* bcrypt.compare(apiKey, key.keyHash)
BcryptCompare(apiKey, keyHash) == keyHash = BcryptHash(apiKey)

\* the rows of the apiKey table
ApiKeyRow(userId, keyHash, permissions, expiresAt) ==
    [userId |-> userId, keyHash |-> keyHash, permissions |-> permissions,
     isActive |-> TRUE, expiresAt |-> expiresAt]

\* expiry durations in ticks: the shortest one, and one beyond the model's horizon
ShortExpiry == 1
LongExpiry == MaxTime + 1

\* parseExpiry(expiry): now + duration
ParseExpiry(expiry) == now + expiry

NotExpired_Always(key) == TRUE

\* expiresAt: { gt: new Date() }
NotExpired(key) == key.expiresAt > now

IsActive_Always(key) == TRUE

\* isActive: true
IsActive(key) == key.isActive

\* where: { userId, isActive: true, expiresAt: { gt: new Date() } }
ActiveKeys(userId) ==
    {id \in DOMAIN apiKeys :
        apiKeys[id].userId = userId /\ IsActive(apiKeys[id]) /\ NotExpired(apiKeys[id])}

\* prisma.apiKey.count(...)
ActiveKeysCount(userId) == Cardinality(ActiveKeys(userId))

\* the credentials of a request: a bearer token, an x-api-key header, or none
Jwt(user) == [kind |-> "jwt", user |-> user, key |-> UnknownKey]
BadJwt == [kind |-> "jwt", user |-> "none", key |-> UnknownKey]
ApiKeyHeader(key) == [kind |-> "apikey", user |-> "none", key |-> key]
NoCredentials == [kind |-> "none", user |-> "none", key |-> UnknownKey]

\* the credentials requests present: the token of a user, a token that does not
\* verify, the plain key of any row of the table, a key of no row, nothing
Credentials ==
    {Jwt(u) : u \in Users} \cup {BadJwt, NoCredentials}
        \cup {ApiKeyHeader(PlainKey(id)) : id \in DOMAIN apiKeys}
        \cup {ApiKeyHeader(UnknownKey)}

\* the rows authenticate's findMany returns that match the presented key
MatchedKeys(apiKey) ==
    {id \in DOMAIN apiKeys :
        /\ IsActive(apiKeys[id]) /\ NotExpired(apiKeys[id])
        /\ BcryptCompare(apiKey, apiKeys[id].keyHash)}

\* the request authenticate answered with 401: req.user, req.authType and
\* req.permissions were never set and no route handler runs; its x-api-key
\* header is what the client sent
Rejected(cred) == Request("none", "none", "none", {}, cred.key)

\* the request as authenticate leaves it when it calls next(), or the
\* rejected request
Authenticated(route, cred) ==
    IF cred.kind = "jwt" THEN
        IF cred.user \in {u.id : u \in users}
        THEN Request(route, cred.user, "jwt", {"*"}, cred.key)
        ELSE Rejected(cred)
    ELSE IF cred.kind = "apikey" /\ MatchedKeys(cred.key) # {} THEN
        LET matchedKey == apiKeys[CHOOSE id \in MatchedKeys(cred.key) : TRUE]
        IN  Request(route, matchedKey.userId, "apikey", matchedKey.permissions, cred.key)
    ELSE Rejected(cred)

\* the 401 of authenticate for these credentials
Unauthenticated(cred) ==
    IF cred.kind = "jwt" THEN "Invalid token"
    ELSE IF cred.kind = "apikey" THEN "Invalid or expired API key"
    ELSE "Authentication required. Provide JWT token or API key."

\* authenticate, for a request of this route with these credentials
Authenticate(t, route, cred) ==
    /\ FreeTask(t)
    /\ req' = [req EXCEPT ![t] = Authenticated(route, cred)]
    /\ pc' = [pc EXCEPT ![t] =
                IF Authenticated(route, cred).authType = "none" THEN "idle"
                ELSE "authenticated"]
    /\ lastResp' = IF Authenticated(route, cred).authType = "none"
                   THEN Response("authenticate", 401, Unauthenticated(cred))
                   ELSE lastResp
    /\ lastData' = IF Authenticated(route, cred).authType = "none" THEN << >> ELSE lastData
    /\ UNCHANGED local
    /\ UNCHANGED <<balance, transactions, paystack, nDeposits, nTransfers, nConfirm, credited,
                   users, wallets, apiKeys, now>>

\* task t has passed authenticate and is at the route's next handler
AtRoute(t, route) == pc[t] = "authenticated" /\ req[t].route = route

Permitted_Always(request, permission) == TRUE

\* requirePermission(permission): a JWT passes, an API key needs the permission
Permitted(request, permission) ==
    request.authType = "jwt" \/ permission \in request.permissions

\* res.status(403) of requirePermission
Forbidden(t, permission) ==
    /\ Respond(t, "permission", 403, permission)
    /\ UNCHANGED <<balance, transactions, paystack, nDeposits, nTransfers, nConfirm, credited,
                   users, wallets, apiKeys, now>>

\* router.post('/deposit', authenticate, requirePermission('deposit'), depositFunds)
Route_Deposit(t) ==
    /\ AtRoute(t, "deposit")
    /\ IF Permitted(req[t], "deposit")
       THEN DepositFunds_Enter(t, req[t].user, NextReference)
       ELSE Forbidden(t, "deposit")

\* router.post('/transfer', authenticate, requirePermission('transfer'), transferFunds)
Route_Transfer(t) ==
    /\ AtRoute(t, "transfer")
    /\ IF Permitted(req[t], "transfer")
       THEN TransferFunds_Enter(t, req[t].user, NextReference)
       ELSE Forbidden(t, "transfer")

\* router.get('/deposit/:reference/status', authenticate, requirePermission('read'),
\* checkDepositStatus)
Route_Status(t) ==
    /\ AtRoute(t, "status")
    /\ IF Permitted(req[t], "read")
       THEN \E reference \in StatusReferences :
                CheckDepositStatus_Enter(t, req[t].user, reference)
       ELSE Forbidden(t, "read")

\* router.get('/balance', authenticate, requirePermission('read'), getBalance)
Route_Balance(t) ==
    /\ AtRoute(t, "balance")
    /\ IF Permitted(req[t], "read")
       THEN GetBalance_Enter(t, req[t].user)
       ELSE Forbidden(t, "read")

\* router.get('/transactions', authenticate, requirePermission('read'), getTransactions)
Route_Transactions(t) ==
    /\ AtRoute(t, "transactions")
    /\ IF Permitted(req[t], "read")
       THEN GetTransactions_Enter(t, req[t].user)
       ELSE Forbidden(t, "read")

(* createApiKey *)

\* the permissions arrays of requests: two valid ones, an empty one and one
\* with a permission that does not exist
PermissionInputs == {{"read"}, {"deposit", "transfer"}, {}, {"admin"}}

\* body('permissions').isArray({ min: 1 }), body('permissions.*').isIn([...])
ValidPermissions(permissions) == permissions # {} /\ permissions \subseteq Permissions

\* key rows, and requests that have passed the count and will insert one
KeysInProgress ==
    Cardinality(DOMAIN apiKeys)
        + Cardinality({t \in Tasks : pc[t] \in {"createKey_create", "rollover_create"}})

LimitReached_Never(activeKeysCount) == FALSE

\* if (activeKeysCount >= 5)
LimitReached(activeKeysCount) == activeKeysCount >= MaxActiveKeys

\* validationResult, prisma.apiKey.count and the limit check of createApiKey
\* for user userId; at most maxKeys rows are ever made
CreateApiKey_Enter(t, userId, permissions, expiry, maxKeys) ==
    /\ IF ~ValidPermissions(permissions) THEN
            Respond(t, "createKey", 400, "validation")
       ELSE IF LimitReached(ActiveKeysCount(userId)) THEN
            Respond(t, "createKey", 400, "Maximum 5 active API keys allowed")
       ELSE
            /\ KeysInProgress < maxKeys
            /\ Goto(t, "createKey_create",
                    [NoLocal EXCEPT !.userId = userId, !.permissions = permissions,
                                    !.expiry = expiry])
    /\ UNCHANGED <<balance, transactions, paystack, nDeposits, nTransfers, nConfirm, credited,
                   users, wallets, apiKeys, now>>

\* the id of the next row
NextKeyId == Cardinality(DOMAIN apiKeys) + 1

\* data: { id, api_key, permissions, expires_at }
KeyData(id, row) ==
    [id |-> id, api_key |-> PlainKey(id), permissions |-> row.permissions,
     expiresAt |-> row.expiresAt]

\* the row a handler inserts from its locals
NewKey(l) ==
    ApiKeyRow(l.userId, BcryptHash(PlainKey(NextKeyId)), l.permissions, ParseExpiry(l.expiry))

\* generateApiKey, bcrypt.hash, parseExpiry, prisma.apiKey.create, the 201
CreateApiKey_Create(t) ==
    /\ pc[t] = "createKey_create"
    /\ apiKeys' = (NextKeyId :> NewKey(local[t])) @@ apiKeys
    /\ RespondData(t, "createKey", 201, "API key created successfully",
                   <<KeyData(NextKeyId, NewKey(local[t]))>>)
    /\ UNCHANGED <<balance, transactions, paystack, nDeposits, nTransfers, nConfirm, credited,
                   users, wallets, now>>

(* rolloverApiKey *)

\* a row no lookup returns: the null of prisma.apiKey.findFirst
NoKey == [userId |-> "none", keyHash |-> BcryptHash(UnknownKey), permissions |-> {},
          isActive |-> FALSE, expiresAt |-> 0]

\* prisma.apiKey.findFirst({ where: { id, userId } })
FindKey(id, userId) ==
    IF id \in DOMAIN apiKeys /\ apiKeys[id].userId = userId THEN apiKeys[id] ELSE NoKey

\* the key ids requests name: those of the table and one of no row
KeyIdInputs == DOMAIN apiKeys \cup {0}

StillValid_Never(key) == FALSE

\* if (expiredKey.expiresAt > new Date())
StillValid(key) == key.expiresAt > now

\* validationResult, prisma.apiKey.findFirst and the expiry check of
\* rolloverApiKey for user userId
RolloverApiKey_Enter(t, userId, expired_key_id, expiry) ==
    /\ IF FindKey(expired_key_id, userId) = NoKey THEN
            Respond(t, "rollover", 404, "API key not found")
       ELSE IF StillValid(FindKey(expired_key_id, userId)) THEN
            Respond(t, "rollover", 400, "Key is not expired yet")
       ELSE
            Goto(t, "rollover_count",
                 [NoLocal EXCEPT !.userId = userId, !.keyId = expired_key_id,
                                 !.permissions = FindKey(expired_key_id, userId).permissions,
                                 !.expiry = expiry])
    /\ UNCHANGED <<balance, transactions, paystack, nDeposits, nTransfers, nConfirm, credited,
                   users, wallets, apiKeys, now>>

\* prisma.apiKey.count and the limit check of rolloverApiKey
RolloverApiKey_Count(t, maxKeys) ==
    /\ pc[t] = "rollover_count"
    /\ IF LimitReached(ActiveKeysCount(local[t].userId)) THEN
            Respond(t, "rollover", 400, "Maximum 5 active API keys allowed")
       ELSE
            /\ KeysInProgress < maxKeys
            /\ Goto(t, "rollover_create", local[t])
    /\ UNCHANGED <<balance, transactions, paystack, nDeposits, nTransfers, nConfirm, credited,
                   users, wallets, apiKeys, now>>

\* generateApiKey, bcrypt.hash, parseExpiry, prisma.apiKey.create with
\* permissions: expiredKey.permissions, the 201
RolloverApiKey_Create(t) ==
    /\ pc[t] = "rollover_create"
    /\ apiKeys' = (NextKeyId :> NewKey(local[t])) @@ apiKeys
    /\ RespondData(t, "rollover", 201, "API key rolled over successfully",
                   <<KeyData(NextKeyId, NewKey(local[t]))>>)
    /\ UNCHANGED <<balance, transactions, paystack, nDeposits, nTransfers, nConfirm, credited,
                   users, wallets, now>>

(* revokeApiKey *)

\* prisma.apiKey.findFirst of revokeApiKey for user userId
RevokeApiKey_Enter(t, userId, keyId) ==
    /\ IF FindKey(keyId, userId) = NoKey THEN
            Respond(t, "revoke", 404, "API key not found")
       ELSE
            Goto(t, "revoke_update", [NoLocal EXCEPT !.userId = userId, !.keyId = keyId])
    /\ UNCHANGED <<balance, transactions, paystack, nDeposits, nTransfers, nConfirm, credited,
                   users, wallets, apiKeys, now>>

\* prisma.apiKey.update({ where: { id: keyId }, data: { isActive: false } })
RevokeApiKey_Update(t) ==
    /\ pc[t] = "revoke_update"
    /\ apiKeys' = [apiKeys EXCEPT ![local[t].keyId].isActive = FALSE]
    /\ Respond(t, "revoke", 200, "API key revoked successfully")
    /\ UNCHANGED <<balance, transactions, paystack, nDeposits, nTransfers, nConfirm, credited,
                   users, wallets, now>>

(* listApiKeys *)

\* status: expired, active or revoked
KeyStatus(key) ==
    IF key.expiresAt < now THEN "expired"
    ELSE IF key.isActive THEN "active" ELSE "revoked"

\* prisma.apiKey.findMany({ where: { userId } }) and the response: the ids and
\* the status of the caller's keys
ListApiKeys_Enter(t, userId) ==
    /\ RespondData(t, "list", 200, "data",
                   <<[id \in {k \in DOMAIN apiKeys : apiKeys[k].userId = userId} |->
                        KeyStatus(apiKeys[id])]>>)
    /\ UNCHANGED <<balance, transactions, paystack, nDeposits, nTransfers, nConfirm, credited,
                   users, wallets, apiKeys, now>>

(* the routes of the apiKeys router: router.use(authenticate), then the handler *)

KeyRoutes == {"keys/create", "keys/rollover", "keys/list", "keys/revoke"}
WalletRoutes == {"deposit", "transfer", "status", "balance", "transactions"}

\* router.post('/create', ..., createApiKey), for requests whose expiry is one
\* of `expiries`
Route_CreateKey(t, expiries, maxKeys) ==
    /\ AtRoute(t, "keys/create")
    /\ \E permissions \in PermissionInputs, expiry \in expiries :
            CreateApiKey_Enter(t, req[t].user, permissions, expiry, maxKeys)

\* router.post('/rollover', ..., rolloverApiKey), for requests whose expiry is
\* one of `expiries`
Route_Rollover(t, expiries) ==
    /\ AtRoute(t, "keys/rollover")
    /\ \E expired_key_id \in KeyIdInputs, expiry \in expiries :
            RolloverApiKey_Enter(t, req[t].user, expired_key_id, expiry)

\* router.get('/list', listApiKeys)
Route_List(t) ==
    /\ AtRoute(t, "keys/list")
    /\ ListApiKeys_Enter(t, req[t].user)

\* router.delete('/:keyId', revokeApiKey)
Route_Revoke(t) ==
    /\ AtRoute(t, "keys/revoke")
    /\ \E keyId \in KeyIdInputs : RevokeApiKey_Enter(t, req[t].user, keyId)

\* the steps of the key handlers after their first await
KeySteps(t, maxKeys) ==
    \/ CreateApiKey_Create(t)
    \/ RolloverApiKey_Count(t, maxKeys)
    \/ RolloverApiKey_Create(t)
    \/ RevokeApiKey_Update(t)

(* Key management: requests of the key routes and of one wallet route, one  *)
(* at a time, with any credentials, while the clock advances.  Every key is  *)
(* made with the shortest expiry, so that keys expire within MaxTime, and    *)
(* only u1 creates keys: u2 sends every other request, also for u1's keys.   *)

MaxKeys == 2

KeysNext ==
    \/ Tick
    \/ \E t \in Tasks :
        \/ /\ AllIdle
           /\ \E route \in KeyRoutes \cup {"balance"}, cred \in Credentials :
                /\ route = "keys/create" => cred # Jwt("u2")
                /\ Authenticate(t, route, cred)
        \/ Route_CreateKey(t, {ShortExpiry}, MaxKeys)
        \/ Route_Rollover(t, {ShortExpiry})
        \/ Route_List(t)
        \/ Route_Revoke(t)
        \/ Route_Balance(t)
        \/ KeySteps(t, MaxKeys)

SpecKeys == Init /\ [][KeysNext]_vars

(* The limit of active keys: user u1 holds four keys that stay valid and one *)
(* that expires at the first tick, and sends concurrent create and rollover  *)
(* requests with a JWT.                                                      *)

MaxKeyRows == 7

\* the rows of the table after u1's five createApiKey requests at time 0:
\* expiresAt is the expiry of the request
InitialKeys ==
    [id \in 1..MaxActiveKeys |->
        ApiKeyRow("u1", BcryptHash(PlainKey(id)), {"read"},
                  IF id = MaxActiveKeys THEN ShortExpiry ELSE LongExpiry)]

\* the state after those requests: nothing else has happened
InitKeyLimit ==
    /\ balance = [w \in Wallets |-> 0]
    /\ transactions = << >>
    /\ paystack = << >>
    /\ nDeposits = 0
    /\ nTransfers = 0
    /\ pc = [t \in Tasks |-> "idle"]
    /\ local = [t \in Tasks |-> NoLocal]
    /\ nConfirm = 0
    /\ credited = [r \in Roots |-> 0]
    /\ users = {UserRow(u, GoogleIdOfUser(u)) : u \in Users}
    /\ wallets = {WalletRow(u, WalletNumber(WalletOfUser(u))) : u \in Users}
    /\ apiKeys = InitialKeys
    /\ now = 0
    /\ req = [t \in Tasks |-> NoReq]
    /\ lastResp = Response("createKey", 201, "API key created successfully")
    /\ lastData = <<KeyData(MaxActiveKeys, InitialKeys[MaxActiveKeys])>>

KeyLimitNext ==
    \/ Tick
    \/ \E t \in Tasks :
        \/ \E route \in {"keys/create", "keys/rollover"} : Authenticate(t, route, Jwt("u1"))
        \/ Route_CreateKey(t, {LongExpiry}, MaxKeyRows)
        \/ Route_Rollover(t, {LongExpiry})
        \/ CreateApiKey_Create(t)
        \/ RolloverApiKey_Count(t, MaxKeyRows)
        \/ RolloverApiKey_Create(t)

SpecKeyLimit == InitKeyLimit /\ [][KeyLimitNext]_vars

(* Access to the wallet routes: user u1 holds a key with the read permission *)
(* and a key with the deposit and transfer permissions, and either no        *)
(* deposit was made yet or one deposit of u1 was confirmed; requests of      *)
(* every wallet route arrive one at a time with any credentials.             *)

\* the rows of the table after u1's two createApiKey requests at time 0
AccessKeys ==
    <<ApiKeyRow("u1", BcryptHash(PlainKey(1)), {"read"}, LongExpiry),
      ApiKeyRow("u1", BcryptHash(PlainKey(2)), {"deposit", "transfer"}, LongExpiry)>>

\* the state after those requests, made either before any deposit or after a
\* deposit of u1 was confirmed by one genuine delivery
InitAccess ==
    \E funded \in BOOLEAN :
        /\ balance = [w \in Wallets |->
                IF funded /\ w = WalletOfUser("u1")
                THEN AmountInNaira(AmountInKobo(Naira(MinDeposit))) ELSE 0]
        /\ paystack = IF funded THEN (1 :> AmountInKobo(Naira(MinDeposit))) ELSE << >>
        /\ transactions =
                IF funded
                THEN (Ref(1, "") :>
                        [DepositEntry([NoLocal EXCEPT !.amount = Naira(MinDeposit),
                                                      !.walletId = WalletOfUser("u1")])
                            EXCEPT !.status = "SUCCESS"])
                ELSE << >>
        /\ nDeposits = IF funded THEN 1 ELSE 0
        /\ nTransfers = 0
        /\ pc = [t \in Tasks |-> "idle"]
        /\ local = [t \in Tasks |-> NoLocal]
        /\ nConfirm = IF funded THEN 1 ELSE 0
        /\ credited = [r \in Roots |-> IF funded /\ r = 1 THEN 1 ELSE 0]
        /\ users = {UserRow(u, GoogleIdOfUser(u)) : u \in Users}
        /\ wallets = {WalletRow(u, WalletNumber(WalletOfUser(u))) : u \in Users}
        /\ apiKeys = AccessKeys
        /\ now = 0
        /\ req = [t \in Tasks |-> NoReq]
        /\ lastResp = Response("createKey", 201, "API key created successfully")
        /\ lastData = <<KeyData(2, AccessKeys[2])>>

AccessNext ==
    \E t \in Tasks :
        \/ /\ AllIdle
           /\ \E route \in WalletRoutes, cred \in Credentials :
                /\ route = "transfer" => nTransfers < MaxJournal
                /\ Authenticate(t, route, cred)
        \/ Route_Deposit(t)
        \/ Route_Transfer(t)
        \/ Route_Status(t)
        \/ Route_Balance(t)
        \/ Route_Transactions(t)
        \/ DepositFunds_Initialize(t)
        \/ DepositFunds_Create(t)
        \/ TransferFunds_Debit(t)
        \/ TransferFunds_Credit(t)
        \/ TransferFunds_CreateDebit(t)
        \/ TransferFunds_CreateCredit(t)
        \/ TransferFunds_Fail(t)
        \/ GetTransactions_FindMany(t)

SpecAccess == InitAccess /\ [][AccessNext]_vars

----------------------------------------------------------------------------
(* A deposit is PENDING while every other operation runs, one request at a   *)
(* time: one more deposit, deliveries for every reference the provider       *)
(* knows and transfers at time 0 while no key exists; the three reads, u1's  *)
(* key requests and the clock while the PENDING deposit is all that has      *)
(* happened to the ledger.                                                   *)

MaxPendingTransfers == 1

\* one deposit more than the PENDING one
DepositFunds_BeginOther(t) ==
    /\ FreeTask(t)
    /\ \E u \in Users : DepositFunds_EnterUpTo(t, u, NextReference, MaxDeposits + 1)

\* createApiKey, rolloverApiKey, revokeApiKey and listApiKeys of user u1
KeyRequest(t) ==
    /\ FreeTask(t)
    /\ \/ CreateApiKey_Enter(t, "u1", {"read"}, ShortExpiry, MaxKeys)
       \/ \E expired_key_id \in KeyIdInputs :
              RolloverApiKey_Enter(t, "u1", expired_key_id, ShortExpiry)
       \/ \E keyId \in KeyIdInputs : RevokeApiKey_Enter(t, "u1", keyId)
       \/ ListApiKeys_Enter(t, "u1")

\* nothing but the first deposit request has reached the ledger
LedgerAtRest == AllIdle /\ nDeposits = 1 /\ nTransfers = 0 /\ nConfirm = 0

\* no key was created and no time has passed
NoKeyYet == AllIdle /\ DOMAIN apiKeys = {} /\ now = 0

PendingNext ==
    \/ LedgerAtRest /\ Tick
    \/ \E t \in Tasks :
        \/ NoKeyYet /\ DepositFunds_BeginOther(t)
        \/ DepositFunds_Initialize(t)
        \/ DepositFunds_Create(t)
        \/ NoKeyYet /\ PaystackWebhook_BeginSigned(t)
        \/ PaystackWebhook_UpdateStatus(t)
        \/ PaystackWebhook_CreditWallet(t)
        \/ PaystackWebhook_Fail(t)
        \/ NoKeyYet /\ nTransfers < MaxPendingTransfers /\ TransferFunds_Begin(t)
        \/ TransferFunds_Debit(t)
        \/ TransferFunds_Credit(t)
        \/ TransferFunds_CreateDebit(t)
        \/ TransferFunds_CreateCredit(t)
        \/ TransferFunds_Fail(t)
        \/ LedgerAtRest /\ CheckDepositStatus_Begin(t)
        \/ LedgerAtRest /\ GetBalance_Begin(t)
        \/ LedgerAtRest /\ GetTransactions_Begin(t)
        \/ GetTransactions_FindMany(t)
        \/ LedgerAtRest /\ KeyRequest(t)
        \/ KeySteps(t, MaxKeys)

SpecPending == InitDeposited /\ [][PendingNext]_vars

----------------------------------------------------------------------------
(* Deposits and the provider's deliveries of their charge.success events,    *)
(* under at-least-once delivery: the provider keeps delivering the event of  *)
(* every payment, a started handler runs on, the store runs the statements   *)
(* of a transaction that is not waiting for a lock, and the store's failures *)
(* are transient.  MaxConfirm bounds the deliveries that enter the           *)
(* transaction, so a failure, or a delivery for one reference, happens only  *)
(* while the bound leaves a delivery to every deposit that is not SUCCESS.   *)

\* the deposits that are not SUCCESS, those not yet requested included
Unsettled ==
    {root \in 1..MaxDeposits :
        ~(/\ Ref(root, "") \in DOMAIN transactions
          /\ transactions[Ref(root, "")].status = "SUCCESS")}

\* the provider delivers the charge.success event of payment `root`
PaystackWebhook_Deliver(t, root) ==
    /\ root \in DOMAIN paystack
    /\ nConfirm + Cardinality(Unsettled \ {root}) < MaxConfirm
    /\ PaystackWebhook_Start(t, GenuineSuccess(root), Hmac(SecretKey, GenuineSuccess(root)))

\* a statement of the webhook's transaction throws, while failures last
PaystackWebhook_FailTransient(t) ==
    /\ nConfirm + Cardinality(Unsettled) <= MaxConfirm
    /\ PaystackWebhook_Fail(t)

DeliveryNext ==
    \E t \in Tasks :
        \/ DepositFunds_Begin(t)
        \/ DepositFunds_Initialize(t)
        \/ DepositFunds_Create(t)
        \/ \E root \in Roots : PaystackWebhook_Deliver(t, root)
        \/ PaystackWebhook_UpdateStatus(t)
        \/ PaystackWebhook_CreditWallet(t)
        \/ PaystackWebhook_FailTransient(t)

\* the provider redelivers every event; a handler and the store go on
DeliveryFairness ==
    /\ \A root \in Roots : WF_vars(\E t \in Tasks : PaystackWebhook_Deliver(t, root))
    /\ \A t \in Tasks :
        /\ WF_vars(DepositFunds_Initialize(t))
        /\ WF_vars(DepositFunds_Create(t))
        /\ WF_vars(PaystackWebhook_UpdateStatus(t))
        /\ WF_vars(PaystackWebhook_CreditWallet(t))

SpecDelivery == Init /\ [][DeliveryNext]_vars /\ DeliveryFairness

---------------------------------------------------------------------------
(* Sign-in: the verify callback of the Google strategy (config/passport.ts)   *)
(* finds the user of a Google identity or creates the user and the wallet in  *)
(* one prisma.$transaction.  SpecSignIn starts from empty tables.             *)

\* generateWalletNumber(): a random 13-digit number; the draws of the model
WalletNumberDraws == {WalletNumber(w) : w \in Wallets}

RespSignedIn == Response("signin", 200, "user")
RespNoEmail == Response("signin", 500, "No email found in Google profile")
RespSignInError == Response("signin", 500, "error")

\* prisma.user.findUnique({ where: { googleId } }) finds a row
UserFound(googleId) == \E u \in users : u.googleId = googleId

\* the unique constraints on user.googleId and on wallet.walletNumber
GoogleIdTaken(googleId) == \E u \in users : u.googleId = googleId
WalletNumberTaken(walletNumber) == \E w \in wallets : w.walletNumber = walletNumber

\* the identities and ids of the rows inserted by transactions still open
SigningIn == {t \in Tasks : pc[t] = "signin_createWallet"}
UsedUserIds == {u.id : u \in users} \cup {local[t].userId : t \in SigningIn}

\* the id the store gives a new user row
NewUserId == CHOOSE id \in Users : id \notin UsedUserIds

\* profile.emails, prisma.user.findUnique({ where: { googleId } })
SignIn_Begin(t) ==
    /\ FreeTask(t)
    /\ \E googleId \in GoogleIds, hasEmail \in BOOLEAN :
        IF ~hasEmail THEN
            Respond(t, "signin", 500, "No email found in Google profile")
        ELSE IF UserFound(googleId) THEN
            Respond(t, "signin", 200, "user")
        ELSE
            Goto(t, "signin_createUser", [NoLocal EXCEPT !.googleId = googleId])
    /\ UNCHANGED <<balance, transactions, paystack, nDeposits, nTransfers, nConfirm, credited, users, wallets, apiKeys, now>>

\* tx.user.create({ data: { email, googleId, name, picture } }), then the
\* argument of tx.wallet.create: generateWalletNumber().  An insert of an
\* identity that an open transaction has inserted waits for that transaction.
SignIn_CreateUser(t) ==
    /\ pc[t] = "signin_createUser"
    /\ \A o \in SigningIn : local[o].googleId # local[t].googleId
    /\ IF GoogleIdTaken(local[t].googleId)
       THEN Respond(t, "signin", 500, "error")
       ELSE \E walletNumber \in WalletNumberDraws :
               Goto(t, "signin_createWallet",
                    [local[t] EXCEPT !.userId = NewUserId, !.walletNumber = walletNumber])
    /\ UNCHANGED <<balance, transactions, paystack, nDeposits, nTransfers, nConfirm, credited, users, wallets, apiKeys, now>>

SignIn_CreateWallet_NoTransaction(t) ==
    /\ pc[t] = "signin_createWallet"
    /\ users' = users \cup {UserRow(local[t].userId, local[t].googleId)}
    /\ IF WalletNumberTaken(local[t].walletNumber)
       THEN /\ Respond(t, "signin", 500, "error")
            /\ UNCHANGED wallets
       ELSE /\ wallets' = wallets \cup {WalletRow(local[t].userId, local[t].walletNumber)}
            /\ Respond(t, "signin", 200, "user")
    /\ UNCHANGED <<balance, transactions, paystack, nDeposits, nTransfers, nConfirm, credited,
                   apiKeys, now>>

\* balance: 0 in the data of tx.wallet.create
NewWalletBalances(userId) == [balance EXCEPT ![WalletOfUser(userId)] = 0]

\* tx.wallet.create({ data: { walletNumber, userId: newUser.id, balance: 0 } }),
\* tx.user.findUnique, and the commit; a throw rolls the user row back
SignIn_CreateWallet(t) ==
    /\ pc[t] = "signin_createWallet"
    /\ IF WalletNumberTaken(local[t].walletNumber)
       THEN /\ Respond(t, "signin", 500, "error")
            /\ UNCHANGED <<users, wallets, balance>>
       ELSE /\ users' = users \cup {UserRow(local[t].userId, local[t].googleId)}
            /\ wallets' = wallets \cup {WalletRow(local[t].userId, local[t].walletNumber)}
            /\ balance' = NewWalletBalances(local[t].userId)
            /\ Respond(t, "signin", 200, "user")
    /\ UNCHANGED <<transactions, paystack, nDeposits, nTransfers, nConfirm, credited,
                   apiKeys, now>>

InitSignIn ==
    /\ InitRequests
    /\ users = {}
    /\ wallets = {}

SignInNext ==
    \E t \in Tasks :
        \/ SignIn_Begin(t)
        \/ SignIn_CreateUser(t)
        \/ SignIn_CreateWallet(t)

SpecSignIn == InitSignIn /\ [][SignInNext]_vars

---------------------------------------------------------------------------
(* Helpers of the properties *)

TransferLabels ==
    {"transfer_debit", "transfer_credit", "transfer_createDebit", "transfer_createCredit"}

HasEntry(root, suffix) == Ref(root, suffix) \in DOMAIN transactions
Entry(root, suffix) == transactions[Ref(root, suffix)]

\* what the confirmations of deposit `root` have added to wallet w
DepositCredit(w, root) ==
    IF HasEntry(root, "") /\ Entry(root, "").walletId = w
    THEN credited[root] * AmountInNaira(paystack[root])
    ELSE 0

\* the signed amount of the transfer entry (root, suffix) if it is on wallet w
TransferAmount(w, root, suffix) ==
    IF HasEntry(root, suffix) /\ Entry(root, suffix).walletId = w
    THEN Entry(root, suffix).amount
    ELSE 0

RECURSIVE Ledger(_, _)
\* deposits credited to w plus the transfer entries of w, over roots 1..n
Ledger(w, n) ==
    IF n = 0 THEN 0
    ELSE DepositCredit(w, n) + TransferAmount(w, n, "_debit")
         + TransferAmount(w, n, "_credit") + Ledger(w, n - 1)

\* the single credit of a SUCCESS deposit of wallet w, over roots 1..n
RECURSIVE ConfirmedDeposits(_, _)
ConfirmedDeposits(w, n) ==
    IF n = 0 THEN 0
    ELSE (IF HasEntry(n, "") /\ Entry(n, "").walletId = w /\ Entry(n, "").status = "SUCCESS"
          THEN AmountInNaira(paystack[n]) ELSE 0)
         + ConfirmedDeposits(w, n - 1)

RespInsufficient == Response("transfer", 400, "Insufficient balance")
RespSelfTransfer == Response("transfer", 400, "Cannot transfer to your own wallet")
RespTransferDone == Response("transfer", 200, "Transfer completed successfully")
RespTransferFailed == Response("transfer", 500, "Transfer failed")
RespAlreadyProcessed == Response("webhook", 200, "Already processed")
RespCredited == Response("webhook", 200, "credited")
RespDepositDone == Response("deposit", 200, "Payment initialized")
RespDepositFailed == Response("deposit", 500, "Failed to initialize deposit")
RespNoSignature == Response("webhook", 400, "No signature")
RespInvalidSignature == Response("webhook", 400, "Invalid signature")
RespNotFound == Response("webhook", 404, "Transaction not found")
RespFailedRecorded == Response("webhook", 200, "failed recorded")
RespWebhookFailed == Response("webhook", 500, "Webhook processing failed")
RespProviderFailed == Response("deposit", 500, "paystack")
RespIgnored == Response("webhook", 200, "ignored")
RespDepositInvalid == Response("deposit", 400, "validation")
RespTransferInvalid == Response("transfer", 400, "validation")

---------------------------------------------------------------------------
(* Properties *)

\* C1: every wallet balance is >= 0 in every reachable state, under any
\* interleaving of transfers and webhook confirmations.
C1_NonNegativeBalance == \A w \in Wallets : balance[w] >= 0

\* C2: deliveries of the same charge.success webhook for one pending deposit,
\* processed concurrently, credit the wallet once for that reference.
C2_CreditedOnce == \A r \in Roots : credited[r] <= 1

\* C3: N deliveries in sequence of the successful confirmation of one deposit
\* credit the wallet exactly once: no reference is credited twice, a credited
\* entry is SUCCESS, and every balance is the sum of one credit per SUCCESS
\* deposit, that is the balance after the first delivery.
C3_SequentialIdempotent ==
    /\ \A r \in Roots :
        /\ credited[r] <= 1
        /\ credited[r] = 1 <=> (HasEntry(r, "") /\ Entry(r, "").status = "SUCCESS")
    /\ \A w \in Wallets : balance[w] = ConfirmedDeposits(w, MaxRefs)

\* C3 witness: a deposit has been credited and a later delivery was answered
\* 'Already processed'.
C3_Witness ==
    /\ lastResp = RespAlreadyProcessed
    /\ \E r \in Roots : credited[r] = 1 /\ balance[Entry(r, "").walletId] > 0

\* C4: once a deposit entry is SUCCESS or FAILED no later delivery changes its
\* status or credits its wallet again.
C4_TerminalStatus ==
    [][\A ref \in DOMAIN transactions :
          transactions[ref].status \in {"SUCCESS", "FAILED"} =>
             /\ transactions'[ref].status = transactions[ref].status
             /\ credited'[ref.root] = credited[ref.root]]_vars

\* the step by which task t answers a transfer with success
TransferSucceeds(t) ==
    /\ pc[t] = "transfer_createCredit"
    /\ pc'[t] = "idle"
    /\ lastResp' = RespTransferDone

\* C5: when transferFunds answers success for amount a, the sender's balance
\* has decreased by exactly a, the recipient's has increased by exactly a, and
\* exactly two entries with the transfer's reference root have been created.
C5_TransferEffect ==
    [][\A t \in Tasks : TransferSucceeds(t) =>
          LET l == local[t] IN
          /\ balance'[l.senderWallet] = balance[l.senderWallet] - l.amount
          /\ balance'[l.recipientWallet] = balance[l.recipientWallet] + l.amount
          /\ DOMAIN transactions' \ DOMAIN transactions
                = {Ref(l.reference, "_debit"), Ref(l.reference, "_credit")}
          /\ {ref \in DOMAIN transactions' : ref.root = l.reference}
                = {Ref(l.reference, "_debit"), Ref(l.reference, "_credit")}
          /\ \A ref \in DOMAIN transactions : transactions'[ref] = transactions[ref]]_vars

\* C5 witness: a transfer was answered with success and its two entries exist.
C5_Witness ==
    /\ lastResp = RespTransferDone
    /\ \E r \in Roots : HasEntry(r, "_debit") /\ HasEntry(r, "_credit")

\* C6: a transfer that passes the earlier checks is rejected with 'Insufficient
\* balance' exactly when the sender's balance is less than the amount (the
\* whole balance can be sent), and the rejection changes no balance and creates
\* no entry.
C6_InsufficientBalance ==
    /\ [](\A u \in Users, n \in WalletNumberInputs, amount \in TransferAmounts :
            LET outcome == TransferOutcome(SenderWallet(u), WalletByNumber(n), n, amount) IN
            (/\ ValidWalletNumber(n)
             /\ amount >= Naira(MinTransfer)
             /\ WalletByNumber(n) \in Wallets \ {WalletOfUser(u)})
            => /\ outcome = RespInsufficient <=> balance[WalletOfUser(u)] < amount
               /\ outcome = Accepted <=> balance[WalletOfUser(u)] >= amount)
    /\ [][(lastResp' = RespInsufficient /\ lastResp # RespInsufficient)
            => UNCHANGED <<balance, transactions>>]_vars

\* C6 witness: a wallet has sent transfers down to its last naira, which were
\* accepted, and a transfer is then rejected for insufficient balance.
C6_Witness ==
    /\ lastResp = RespInsufficient
    /\ \E w \in Wallets, r \in Roots :
          /\ balance[w] = 0
          /\ HasEntry(r, "_debit") /\ Entry(r, "_debit").walletId = w

\* C7: a transfer is all-or-nothing.  The transfer entries come in pairs (a
\* debit entry exists exactly when the credit entry of the same root does,
\* with opposite amounts on the two wallets), and every balance is the deposits
\* credited to the wallet plus its transfer entries: no state shows a debit
\* without the credit, or a balance change without both entries, also after a
\* transfer whose transaction failed.
C7_AllOrNothing ==
    /\ \A r \in Roots :
        /\ HasEntry(r, "_debit") <=> HasEntry(r, "_credit")
        /\ HasEntry(r, "_debit") =>
            /\ Entry(r, "_debit").amount = 0 - Entry(r, "_credit").amount
            /\ Entry(r, "_debit").walletId = Entry(r, "_credit").recipientWalletId
            /\ Entry(r, "_credit").walletId = Entry(r, "_debit").recipientWalletId
    /\ \A w \in Wallets : balance[w] = Ledger(w, MaxRefs)

\* C7 witness: a transfer's transaction failed after an earlier transfer went
\* through.
C7_Witness ==
    /\ lastResp = RespTransferFailed
    /\ \E r \in Roots : HasEntry(r, "_debit")

\* C8: a transfer whose wallet number resolves to the sender's own wallet
\* fails for every amount and balance, never enters the transaction, and its
\* rejection changes no balance and no entry.
C8_NoSelfTransfer ==
    /\ [](/\ \A u \in Users, amount \in TransferAmounts :
              TransferOutcome(SenderWallet(u), WalletOfUser(u),
                              WalletNumber(WalletOfUser(u)), amount)
                \in {RespSelfTransfer, Response("transfer", 400, "validation")}
          /\ \A t \in Tasks : pc[t] \in TransferLabels =>
              local[t].senderWallet # local[t].recipientWallet)
    /\ [][(lastResp' = RespSelfTransfer /\ lastResp # RespSelfTransfer)
            => UNCHANGED <<balance, transactions>>]_vars

\* C8 witness: a self-transfer was rejected although the sender could pay.
C8_Witness ==
    /\ lastResp = RespSelfTransfer
    /\ \E w \in Wallets : balance[w] >= Naira(MinDeposit) \div 2

\* C9: when a pending deposit is confirmed as successful, the amount added to
\* the wallet balance equals the amount recorded on the deposit's entry.
C9_CreditIsRecordedAmount ==
    [][\A t \in Tasks :
          (pc[t] = "webhook_credit" /\ pc'[t] = "idle" /\ lastResp' = RespCredited)
          => balance'[local[t].walletId]
               = balance[local[t].walletId] + transactions[local[t].transaction].amount]_vars

\* C10: the wallet rows of a transfer are locked in an order independent of the
\* direction, so no two transfers wait for each other's row.
C10_NoCircularWait ==
    ~ \E t1, t2 \in Tasks :
        /\ t1 # t2
        /\ pc[t1] \in TransferLabels /\ pc[t2] \in TransferLabels
        /\ WantedWallets(t1) # {} /\ WantedWallets(t1) \subseteq HeldWallets(t2)
        /\ WantedWallets(t2) # {} /\ WantedWallets(t2) \subseteq HeldWallets(t1)

\* C11: no balance update is lost.  Every step changes every wallet's balance
\* by exactly the credits and debits accepted in that step (the confirmations
\* credited and the transfer entries written), whatever other transfers and
\* confirmations touching the wallet are in progress; so after any
\* interleaving the balance is the initial balance, 0, plus all accepted
\* credits and debits.
C11_NoLostUpdate ==
    [][(balance' # balance \/ transactions' # transactions \/ credited' # credited) =>
          \A w \in Wallets :
              balance'[w] - balance[w] = Ledger(w, MaxRefs)' - Ledger(w, MaxRefs)]_vars

\* C11 witness: a confirmation is about to credit a wallet whose row a transfer
\* in progress has updated, and the wallet has been credited before.
C11_Witness ==
    \E t1, t2 \in Tasks :
        /\ pc[t1] = "webhook_credit"
        /\ pc[t2] \in {"transfer_createDebit", "transfer_createCredit"}
        /\ local[t1].walletId \in HeldWallets(t2)
        /\ balance[local[t1].walletId] > 0

\* the step by which task t answers a deposit with success
DepositSucceeds(t) ==
    /\ pc[t] = "deposit_create"
    /\ pc'[t] = "idle"
    /\ lastResp' = RespDepositDone

\* C12: a successful depositFunds call creates exactly one entry, of type
\* DEPOSIT and status PENDING, for the caller's wallet and the requested amount,
\* changes no other entry and no balance; a balance changes only in the step
\* that commits a webhook confirmation or a transfer.
C12_DepositFrame ==
    [][/\ \A t \in Tasks : DepositSucceeds(t) =>
            LET ref == Ref(local[t].reference, "") IN
            /\ DOMAIN transactions' \ DOMAIN transactions = {ref}
            /\ transactions'[ref].type = "DEPOSIT"
            /\ transactions'[ref].status = "PENDING"
            /\ transactions'[ref].walletId = WalletOfUser(local[t].userId)
            /\ transactions'[ref].amount = local[t].amount
            /\ \A old \in DOMAIN transactions : transactions'[old] = transactions[old]
            /\ balance' = balance
       /\ balance' # balance =>
            \E t \in Tasks : /\ pc[t] \in {"webhook_credit", "transfer_createCredit"}
                             /\ pc'[t] = "idle"]_vars

\* C12 witness: a deposit was answered with success, its entry is PENDING and
\* no wallet has been credited.
C12_Witness ==
    /\ lastResp = RespDepositDone
    /\ \E r \in Roots : HasEntry(r, "") /\ Entry(r, "").status = "PENDING"
    /\ \A w \in Wallets : balance[w] = 0

C14_CreditFailureRollsBack ==
    [][\A t \in Tasks :
          (pc[t] = "webhook_credit" /\ pc'[t] = "idle" /\ lastResp' = RespWebhookFailed) =>
          /\ transactions[local[t].transaction].status = "PENDING"
          /\ UNCHANGED <<transactions, balance, credited>>
          /\ ~AlreadyProcessed(transactions'[local[t].transaction])]_vars

\* C14 witness: of two deliveries in sequence that entered the transaction the
\* first failed, and the redelivery has credited the deposit.
C14_Witness ==
    /\ nConfirm = 2
    /\ lastResp = RespCredited
    /\ \E r \in Roots :
          /\ credited[r] = 1
          /\ Entry(r, "").status = "SUCCESS"
          /\ balance[Entry(r, "").walletId] = AmountInNaira(paystack[r])

\* C15: a confirmation whose provider outcome is not success, processed for a
\* deposit entry that was PENDING when the handler read it, sets the entry's
\* status to FAILED and changes no wallet balance; nothing but that status
\* changes in the journal.
C15_FailedOutcome ==
    [][\A t \in Tasks :
          (pc[t] = "webhook_update" /\ local[t].status # "success"
              /\ pc'[t] = "idle" /\ lastResp' # RespWebhookFailed) =>
          LET ref == local[t].transaction IN
          /\ lastResp' = RespFailedRecorded
          /\ transactions'[ref].status = "FAILED"
          /\ transactions' = [transactions EXCEPT ![ref].status = "FAILED"]
          /\ UNCHANGED <<balance, credited>>]_vars

\* C15 witness: a failed outcome was recorded on a deposit that was never
\* credited.
C15_Witness ==
    /\ lastResp = RespFailedRecorded
    /\ \E r \in Roots :
          /\ HasEntry(r, "") /\ Entry(r, "").status = "FAILED"
          /\ credited[r] = 0
          /\ balance[Entry(r, "").walletId] = 0

\* C16: a webhook request without a signature, or with a signature that is not
\* the HMAC of its body under the secret key, is rejected whatever its payload
\* says; no request enters the transaction unless its check outcome accepted
\* it, and a rejection changes no entry and no balance.
C16_SignatureRejected ==
    /\ [](\A body \in WebhookPayloads : \A paystackSignature \in Signatures(body) :
            paystackSignature # Hmac(SecretKey, body) =>
                WebhookOutcome(body, paystackSignature)
                    \in {RespNoSignature, RespInvalidSignature})
    /\ [][(lastResp' \in {RespNoSignature, RespInvalidSignature} /\ lastResp' # lastResp)
            => UNCHANGED <<transactions, balance, credited>>]_vars

\* C16 witness: a request that names a PENDING deposit as successful could be
\* sent with a forged signature, and a request was rejected for its signature
\* while the deposit stayed PENDING and uncredited.
C16_Witness ==
    /\ lastResp = RespInvalidSignature
    /\ \E body \in WebhookPayloads :
          /\ body.event = "charge.success" /\ body.status = "success"
          /\ FindTransaction(body.reference).status = "PENDING"
          /\ WebhookOutcome(body, Hmac(OtherKey, body)) = RespInvalidSignature
          /\ WebhookOutcome(body, Hmac(SecretKey, body)) = WebhookAccepted
          /\ balance[FindTransaction(body.reference).walletId] = 0

\* C17: a correctly signed charge.success confirmation whose reference matches
\* no entry is answered 'Transaction not found', never enters the transaction,
\* and the answer changes no entry and no balance.
C17_UnknownReference ==
    /\ [](/\ \A body \in WebhookPayloads :
              (body.event = "charge.success" /\ body.reference \notin DOMAIN transactions)
              => WebhookOutcome(body, Hmac(SecretKey, body)) = RespNotFound
          /\ \A t \in Tasks : pc[t] \in {"webhook_update", "webhook_credit"} =>
              local[t].transaction \in DOMAIN transactions)
    /\ [][(lastResp' = RespNotFound /\ lastResp' # lastResp)
            => UNCHANGED <<transactions, balance, credited>>]_vars

\* C17 witness: a confirmation was answered 'Transaction not found' although
\* the provider knows a reference: the deposit's entry was never created.
C17_Witness ==
    /\ lastResp = RespNotFound
    /\ \E r \in DOMAIN paystack : ~HasEntry(r, "")
    /\ \A w \in Wallets : balance[w] = 0

\* the identity of an entry: everything but its status
EntryData(entry) == [entry EXCEPT !.status = "any"]

\* task t is at a create whose reference the table already holds
CreatesUsedReference(t) ==
    \/ pc[t] = "deposit_create" /\ ReferenceTaken(Ref(local[t].reference, ""))
    \/ pc[t] = "transfer_createDebit" /\ ReferenceTaken(Ref(local[t].reference, "_debit"))
    \/ pc[t] = "transfer_createCredit" /\ ReferenceTaken(Ref(local[t].reference, "_credit"))

\* C18: all entries have pairwise distinct references: no step puts a second
\* entry under a reference in use (the entry of a reference stays the entry it
\* was), and a successful transfer adds two entries, <ref>_debit and
\* <ref>_credit.  An attempt to create an entry with a reference in use fails:
\* the request ends with its error response and no balance and no entry changes.
C18_UniqueReferences ==
    [][/\ \A ref \in DOMAIN transactions :
            /\ ref \in DOMAIN transactions'
            /\ EntryData(transactions'[ref]) = EntryData(transactions[ref])
       /\ \A t \in Tasks : TransferSucceeds(t) =>
            Cardinality(DOMAIN transactions' \ DOMAIN transactions) = 2
       /\ \A t \in Tasks : (CreatesUsedReference(t) /\ pc'[t] # pc[t]) =>
            /\ pc'[t] = "idle"
            /\ lastResp' \in {RespDepositFailed, RespTransferFailed}
            /\ UNCHANGED <<balance, transactions>>]_vars

\* C18 witness: a transfer whose generated reference an earlier transfer used
\* has updated both balances in its transaction and is about to create its
\* debit entry.
C18_Witness ==
    \E t \in Tasks :
        /\ pc[t] = "transfer_createDebit"
        /\ ReferenceTaken(Ref(local[t].reference, "_debit"))

\* the wallets of user row u
WalletsOf(u) == {w \in wallets : w.userId = u.id}

\* C19: after any sequence of sign-ins, repeated and concurrent first sign-ins
\* of one Google identity included, every user has exactly one wallet and every
\* wallet a user, an identity has at most one user, a wallet has balance 0, and
\* the user row and its wallet row appear in the same step: no state has a
\* user without a wallet or with two.
C19_OneWalletPerUser ==
    /\ [](/\ \A u \in users : Cardinality(WalletsOf(u)) = 1
          /\ \A w \in wallets : \E u \in users : u.id = w.userId /\ balance[w.id] = 0
          /\ \A u1, u2 \in users : u1.googleId = u2.googleId => u1 = u2)
    /\ [][/\ Cardinality(users' \ users) = Cardinality(wallets' \ wallets)
          /\ \A u \in users' \ users : \E w \in wallets' \ wallets : w.userId = u.id]_vars

\* C19 witness: two first sign-ins of one identity ran concurrently: one has
\* created the user and its wallet, the other looked the user up before that
\* and is about to create it again.
C19_Witness ==
    \E t \in Tasks :
        /\ pc[t] = "signin_createUser"
        /\ GoogleIdTaken(local[t].googleId)
        /\ \E u \in users : u.googleId = local[t].googleId /\ Cardinality(WalletsOf(u)) = 1

\* C20: when the wallet number drawn for a new owner is the number of an
\* existing wallet, wallet creation draws again, and the sign-in ends with the
\* owner having a wallet whose number no other wallet has.
C20_CollisionRetried ==
    [][\A t \in Tasks :
          (pc[t] = "signin_createWallet" /\ WalletNumberTaken(local[t].walletNumber)
              /\ pc'[t] # pc[t]) =>
          \E u \in users' :
              /\ u.googleId = local[t].googleId
              /\ \E w \in wallets' :
                    /\ w.userId = u.id
                    /\ \A o \in wallets' \ {w} : o.walletNumber # w.walletNumber]_vars

\* C28: a webhook request that carries the provider's signature of its body and
\* an event other than charge.success is answered 200 without a lookup, and the
\* answer changes no entry and no balance.
C28_OtherEventsIgnored ==
    /\ [](\A body \in WebhookPayloads : body.event # "charge.success" =>
            WebhookOutcome(body, Hmac(SecretKey, body)) = RespIgnored)
    /\ [][(lastResp' = RespIgnored /\ lastResp' # lastResp)
            => UNCHANGED <<transactions, balance, credited>>]_vars

\* C28 witness: a signed event of a failed charge that names a PENDING deposit
\* was acknowledged, and the deposit is still PENDING and uncredited.
C28_Witness ==
    /\ lastResp = RespIgnored
    /\ \E body \in WebhookPayloads :
          /\ body.event = "charge.failed"
          /\ FindTransaction(body.reference).status = "PENDING"
          /\ balance[FindTransaction(body.reference).walletId] = 0

\* the handlers' positions after the validation of the request
PastValidation ==
    {"deposit_initialize", "deposit_create", "transfer_debit", "transfer_credit",
     "transfer_createDebit", "transfer_createCredit"}

\* a whole number of kobo
WholeKobo(amount) == amount % TicksPerKobo = 0

\* C29: an amount finer than one kobo does not pass validation, so every request
\* past its validation, every entry and every balance holds a whole number of
\* kobo.
C29_WholeMinorUnits ==
    /\ \A t \in Tasks : pc[t] \in PastValidation => WholeKobo(local[t].amount)
    /\ \A ref \in DOMAIN transactions : WholeKobo(transactions[ref].amount)
    /\ \A w \in Wallets : WholeKobo(balance[w])

RespStatus == Response("status", 200, "data")
RespBalance == Response("balance", 200, "data")
RespTransactions == Response("transactions", 200, "data")

\* the operations of the three reads, as their responses name them
ReadOps == {"status", "balance", "transactions"}

\* C27: checkDepositStatus, getBalance and getTransactions change nothing: a
\* step that sends the response of a read, and each step of getTransactions,
\* leaves every balance, every entry, the credits and the provider's payments
\* as they were, also while a confirmation of the deposit is being processed.
C27_PureReads ==
    [][/\ (lastResp'.op \in ReadOps /\ (lastResp' # lastResp \/ lastData' # lastData))
            => UNCHANGED <<balance, transactions, credited, paystack>>
       /\ \A t \in Tasks :
            ((pc[t] = "transactions_findMany" \/ pc'[t] = "transactions_findMany")
                /\ pc'[t] # pc[t])
            => UNCHANGED <<balance, transactions, credited, paystack>>]_vars

\* C27 witness: the status of a deposit was read as PENDING while a genuine
\* charge.success delivery for it, which the provider sends once it is paid, is
\* in its transaction; the wallet is uncredited and the entry still PENDING.
C27_Witness ==
    /\ lastResp = RespStatus
    /\ Len(lastData) = 1
    /\ lastData[1].status = "pending"
    /\ \E t \in Tasks :
          /\ pc[t] \in {"webhook_update", "webhook_credit"}
          /\ local[t].transaction = lastData[1].reference
          /\ local[t].status = "success"
    /\ transactions[lastData[1].reference].status = "PENDING"
    /\ balance[transactions[lastData[1].reference].walletId] = 0

\* the entries of wallet w
EntriesOf(w) == {ref \in DOMAIN transactions : transactions[ref].walletId = w}

RespInvalidKey == Response("authenticate", 401, "Invalid or expired API key")
RespRolledOver == Response("rollover", 201, "API key rolled over successfully")
RespNotExpiredYet == Response("rollover", 400, "Key is not expired yet")
RespKeyCreated == Response("createKey", 201, "API key created successfully")

\* key id is revoked, or its expiry time has passed
Dead(id) == ~apiKeys[id].isActive \/ apiKeys[id].expiresAt <= now

\* C25: a key that is revoked or past its expiry stays so after every step, and
\* a request that authenticate accepts by its API key presented a key of the
\* table that is neither revoked nor past its expiry.
C25_DeadKeysRejected ==
    [][/\ \A id \in DOMAIN apiKeys :
            Dead(id) =>
                /\ id \in DOMAIN apiKeys'
                /\ ~apiKeys'[id].isActive \/ apiKeys'[id].expiresAt <= now'
                /\ apiKeys'[id].keyHash = apiKeys[id].keyHash
       /\ \A t \in Tasks :
            (pc[t] = "idle" /\ pc'[t] = "authenticated" /\ req'[t].authType = "apikey") =>
                /\ req'[t].apiKey \in DOMAIN apiKeys
                /\ ~Dead(req'[t].apiKey)
                /\ req'[t].user = apiKeys[req'[t].apiKey].userId]_vars

\* C25 witness: a request presented a key that is revoked and not yet expired,
\* and was answered 401.
C25_Witness ==
    /\ lastResp = RespInvalidKey
    /\ \E t \in Tasks :
          /\ pc[t] = "idle"
          /\ req[t].apiKey \in DOMAIN apiKeys
          /\ ~apiKeys[req[t].apiKey].isActive
          /\ apiKeys[req[t].apiKey].expiresAt > now

\* C24: a rollover that has passed its checks named a key of the caller whose
\* expiry time has passed; the step that inserts the new key leaves every
\* other row as it was and gives the new key the caller and the permissions of
\* the old one; the checks themselves insert nothing.
C24_RolloverOnlyExpired ==
    /\ [](\A t \in Tasks :
            pc[t] \in {"rollover_count", "rollover_create"} =>
                /\ local[t].keyId \in DOMAIN apiKeys
                /\ apiKeys[local[t].keyId].userId = req[t].user
                /\ apiKeys[local[t].keyId].expiresAt <= now)
    /\ [][\A t \in Tasks :
            /\ (pc[t] = "rollover_create" /\ pc'[t] = "idle") =>
                  /\ DOMAIN apiKeys' = DOMAIN apiKeys \cup {NextKeyId}
                  /\ \A id \in DOMAIN apiKeys : apiKeys'[id] = apiKeys[id]
                  /\ apiKeys'[NextKeyId].userId = req[t].user
                  /\ apiKeys'[NextKeyId].permissions = apiKeys[local[t].keyId].permissions
                  /\ lastResp' = RespRolledOver
            /\ ((AtRoute(t, "keys/rollover") \/ pc[t] = "rollover_count") /\ pc'[t] # pc[t]) =>
                  apiKeys' = apiKeys]_vars

\* C24 witness: a rollover has answered 201; the key it made has the
\* permissions of an older key of the same user whose expiry has passed and
\* which is still an active row.
C24_Witness ==
    /\ lastResp = RespRolledOver
    /\ Len(lastData) = 1
    /\ \E old \in DOMAIN apiKeys :
          /\ old < lastData[1].id
          /\ apiKeys[old].expiresAt <= now
          /\ apiKeys[old].isActive
          /\ apiKeys[old].userId = apiKeys[lastData[1].id].userId
          /\ apiKeys[old].permissions = apiKeys[lastData[1].id].permissions
          /\ apiKeys[lastData[1].id].expiresAt > now

\* C22: every request that is past authenticate on a route of the apiKeys
\* router was authenticated with a JWT.
C22_KeysJwtOnly ==
    \A t \in Tasks :
        (pc[t] # "idle" /\ req[t].route \in KeyRoutes) => req[t].authType = "jwt"

\* C23: no user has more than five keys that are active and not expired.
C23_AtMostFiveActive ==
    \A u \in Users : ActiveKeysCount(u) <= MaxActiveKeys

\* the permission each wallet route passes to requirePermission
RequiredPermission(route) ==
    CASE route = "deposit" -> "deposit"
      [] route = "transfer" -> "transfer"
      [] OTHER -> "read"

\* what the wallet operations and the key operations write
StoreUnchanged ==
    UNCHANGED <<balance, transactions, paystack, nDeposits, nTransfers, nConfirm, credited,
                users, wallets, apiKeys>>

\* C21: a request authenticated by an API key is inside a wallet handler only
\* if the key's permissions contain the permission of its route; the step
\* after authenticate answers 403 and changes nothing in the store when the
\* key lacks the permission, and is never the 403 of requirePermission for a
\* JWT or for a key that has the permission.
C21_PermissionGate ==
    /\ [](\A t \in Tasks :
            (pc[t] \notin {"idle", "authenticated"} /\ req[t].authType = "apikey") =>
                RequiredPermission(req[t].route) \in req[t].permissions)
    /\ [][\A t \in Tasks :
            (AtRoute(t, req[t].route) /\ req[t].route \in WalletRoutes
                    /\ pc'[t] # "authenticated") =>
                IF /\ req[t].authType = "apikey"
                   /\ RequiredPermission(req[t].route) \notin req[t].permissions
                THEN /\ pc'[t] = "idle"
                     /\ lastResp' = Response("permission", 403, RequiredPermission(req[t].route))
                     /\ StoreUnchanged
                ELSE ~(pc'[t] = "idle" /\ lastResp'.op = "permission")]_vars

\* C21 witness: a transfer request was refused with 403 while the wallet of
\* the key's owner held funds.
C21_Witness ==
    /\ lastResp = Response("permission", 403, "transfer")
    /\ balance[WalletOfUser("u1")] >= Naira(MinDeposit) \div 2
    /\ \A t \in Tasks : pc[t] = "idle"

\* C26: every deposit past its validation has an amount of at least 100 and
\* every transfer past its validation an amount of at least 1, and so has
\* every entry; the step that answers a validation error changes nothing in
\* the store.
C26_ValidationFirst ==
    /\ [](/\ \A t \in Tasks :
                /\ pc[t] \in {"deposit_initialize", "deposit_create"} =>
                        local[t].amount >= Naira(MinDeposit)
                /\ pc[t] \in PastValidation \ {"deposit_initialize", "deposit_create"} =>
                        local[t].amount >= Naira(MinTransfer)
          /\ \A ref \in DOMAIN transactions :
                IF transactions[ref].type = "DEPOSIT"
                THEN transactions[ref].amount >= Naira(MinDeposit)
                ELSE \/ transactions[ref].amount >= Naira(MinTransfer)
                     \/ 0 - transactions[ref].amount >= Naira(MinTransfer))
    /\ [][(/\ lastResp' \in {RespDepositInvalid, RespTransferInvalid}
           /\ \E t \in Tasks : pc[t] = "authenticated" /\ pc'[t] = "idle")
            => StoreUnchanged]_vars

\* C26 witness: a request was answered with a validation error while a deposit
\* of the smallest valid amount is recorded and no other entry exists.
C26_Witness ==
    /\ lastResp \in {RespDepositInvalid, RespTransferInvalid}
    /\ \E ref \in DOMAIN transactions : transactions[ref].amount = Naira(MinDeposit)
    /\ Cardinality(DOMAIN transactions) = 1

RespUnauthorized == Response("status", 403, "Unauthorized")

\* C37: a response of checkDepositStatus that carries data carries the data
\* of one entry of the caller's own wallet; every other response of the route
\* carries no data.
C37_OwnerOnly ==
    [][\A t \in Tasks :
        (AtRoute(t, "status") /\ pc'[t] = "idle") =>
            IF lastResp' = RespStatus
            THEN /\ Len(lastData') = 1
                 /\ lastData'[1].reference \in DOMAIN transactions
                 /\ lastData'[1] = StatusData(lastData'[1].reference)
                 /\ transactions[lastData'[1].reference].walletId = WalletOfUser(req[t].user)
            ELSE lastData' = << >>]_vars

\* C37 witness: a status request was answered 403 while the journal holds an
\* entry, and every entry, of one wallet only.
C37_Witness ==
    /\ lastResp = RespUnauthorized
    /\ lastData = << >>
    /\ DOMAIN transactions # {}
    /\ \E w \in Wallets : \A ref \in DOMAIN transactions : transactions[ref].walletId = w

\* the signed amount of entry (root, suffix) if it is a SUCCESS entry of w
SuccessAmount(w, root, suffix) ==
    IF HasEntry(root, suffix) /\ Entry(root, suffix).walletId = w
       /\ Entry(root, suffix).status = "SUCCESS"
    THEN Entry(root, suffix).amount
    ELSE 0

RECURSIVE SuccessSum(_, _)
\* the sum of the signed amounts of the SUCCESS entries of w, over roots 1..n
SuccessSum(w, n) ==
    IF n = 0 THEN 0
    ELSE SuccessAmount(w, n, "") + SuccessAmount(w, n, "_debit")
         + SuccessAmount(w, n, "_credit") + SuccessSum(w, n - 1)

\* C31: the balance of every wallet is the sum of the signed amounts of its
\* SUCCESS entries.
C31_BalanceIsSumOfEntries == \A w \in Wallets : balance[w] = SuccessSum(w, MaxRefs)

RECURSIVE SumOver(_, _)
\* the sum of the balances bal of the wallets S
SumOver(bal, S) ==
    IF S = {} THEN 0
    ELSE LET w == CHOOSE x \in S : TRUE IN bal[w] + SumOver(bal, S \ {w})

TotalBalance == SumOver(balance, Wallets)

\* task t takes a step of transferFunds
TransferStep(t) ==
    /\ pc'[t] # pc[t]
    /\ pc[t] \in TransferLabels \/ pc'[t] \in TransferLabels

\* task t commits the credit of a confirmed deposit
ConfirmationStep(t) ==
    /\ pc[t] = "webhook_credit"
    /\ pc'[t] = "idle"
    /\ lastResp' = RespCredited

\* C32: the sum of all balances never decreases; every step of a transfer,
\* its commit and its failure included, leaves it unchanged; a step that
\* changes it is the commit of a deposit confirmation, which adds the
\* confirmed amount.
C32_TotalBalance ==
    [][/\ SumOver(balance', Wallets) >= TotalBalance
       /\ \A t \in Tasks : TransferStep(t) => SumOver(balance', Wallets) = TotalBalance
       /\ SumOver(balance', Wallets) # TotalBalance =>
             \E t \in Tasks :
                 /\ ConfirmationStep(t)
                 /\ SumOver(balance', Wallets) = TotalBalance + local[t].amountInNaira]_vars

\* C32 witness: after a confirmed deposit a transfer has moved money between
\* the two wallets and the sum is still the confirmed amount.
C32_Witness ==
    /\ lastResp = RespTransferDone
    /\ \E r \in Roots : HasEntry(r, "_debit") /\ HasEntry(r, "_credit")
    /\ credited[1] = 1
    /\ \A w \in Wallets : balance[w] > 0
    /\ TotalBalance = AmountInNaira(paystack[1])

\* entry e is a SUCCESS transfer entry of amount a on wallet w with
\* counterparty c
IsTransferEntry(e, a, w, c) ==
    /\ e.type = "TRANSFER"
    /\ e.status = "SUCCESS"
    /\ e.amount = a
    /\ e.walletId = w
    /\ e.recipientWalletId = c

\* C33: the step that completes a transfer of amount a creates its two
\* entries, absent before, with status SUCCESS: one of -a on the sender's
\* wallet with the recipient as counterparty, one of +a on the recipient's
\* wallet with the sender as counterparty; and no transfer entry is PENDING
\* (or anything but SUCCESS) in any state.
C33_TransferEntries ==
    /\ [](\A ref \in DOMAIN transactions :
             transactions[ref].type = "TRANSFER" =>
                 /\ transactions[ref].status = "SUCCESS"
                 /\ ref.suffix \in {"_debit", "_credit"})
    /\ [][\A t \in Tasks : TransferSucceeds(t) =>
            LET l == local[t]
                debit == Ref(l.reference, "_debit")
                credit == Ref(l.reference, "_credit")
            IN  /\ l.amount > 0
                /\ debit \notin DOMAIN transactions
                /\ credit \notin DOMAIN transactions
                /\ IsTransferEntry(transactions'[debit], 0 - l.amount,
                                   l.senderWallet, l.recipientWallet)
                /\ IsTransferEntry(transactions'[credit], l.amount,
                                   l.recipientWallet, l.senderWallet)]_vars

\* C33 witness: a completed transfer's entries are both SUCCESS, of opposite
\* amounts, on the two wallets, each naming the other.
C33_Witness ==
    \E r \in Roots :
        /\ HasEntry(r, "_debit") /\ HasEntry(r, "_credit")
        /\ Entry(r, "_debit").status = "SUCCESS" /\ Entry(r, "_credit").status = "SUCCESS"
        /\ Entry(r, "_debit").amount < 0
        /\ Entry(r, "_credit").amount = 0 - Entry(r, "_debit").amount
        /\ Entry(r, "_debit").recipientWalletId = Entry(r, "_credit").walletId
        /\ Entry(r, "_credit").recipientWalletId = Entry(r, "_debit").walletId
        /\ Entry(r, "_debit").walletId # Entry(r, "_credit").walletId

\* C36: a correctly signed charge.success confirmation whose reference is that
\* of a transfer entry is answered 'Already processed' whatever status it
\* carries, never enters the transaction, and its answer changes no
\* balance and no entry; a transfer entry, once created, never changes.
C36_TransferReferenceIgnored ==
    /\ [](/\ \A body \in WebhookPayloads :
              (/\ body.event = "charge.success"
               /\ body.reference \in DOMAIN transactions
               /\ transactions[body.reference].type = "TRANSFER")
              => WebhookOutcome(body, Hmac(SecretKey, body)) = RespAlreadyProcessed
          /\ \A t \in Tasks : pc[t] \in {"webhook_update", "webhook_credit"} =>
              /\ local[t].transaction \in DOMAIN transactions
              /\ transactions[local[t].transaction].type = "DEPOSIT")
    /\ [][/\ \A ref \in DOMAIN transactions :
              transactions[ref].type = "TRANSFER" =>
                  ref \in DOMAIN transactions' /\ transactions'[ref] = transactions[ref]
          /\ (lastResp' = RespAlreadyProcessed /\ pc' = pc)
              => UNCHANGED <<transactions, balance, credited, nConfirm>>]_vars

\* C36 witness: a confirmation naming a transfer entry was answered 'Already
\* processed' (no other confirmation is delivered after the funding one), and
\* the balances are those the transfer left.
C36_Witness ==
    /\ lastResp = RespAlreadyProcessed
    /\ nConfirm = 1
    /\ \E r \in Roots :
          /\ HasEntry(r, "_debit") /\ HasEntry(r, "_credit")
          /\ balance[Entry(r, "_credit").walletId] = Entry(r, "_credit").amount
    /\ \E body \in WebhookPayloads :
          /\ body.reference.suffix # ""
          /\ body.status = "failed"
          /\ WebhookOutcome(body, Hmac(SecretKey, body)) = RespAlreadyProcessed

\* entry ref is a deposit that awaits its confirmation
PendingDeposit(ref) ==
    /\ ref \in DOMAIN transactions
    /\ transactions[ref].type = "DEPOSIT"
    /\ transactions[ref].status = "PENDING"

\* task t ends a delivery for reference ref inside the webhook's transaction
ConfirmsReference(t, ref) ==
    /\ pc[t] \in {"webhook_update", "webhook_credit"}
    /\ local[t].transaction = ref
    /\ pc'[t] = "idle"

\* C34: a PENDING deposit entry keeps its amount and its wallet in every step,
\* and its status (and every other field) changes only in a step that ends a
\* webhook delivery for its own reference: another deposit, a delivery for
\* another reference, a transfer, a read, a key operation and the passage of
\* time leave the entry as it is.
C34_PendingFrame ==
    [][\A ref \in DOMAIN transactions : PendingDeposit(ref) =>
          /\ ref \in DOMAIN transactions'
          /\ transactions'[ref].amount = transactions[ref].amount
          /\ transactions'[ref].walletId = transactions[ref].walletId
          /\ transactions'[ref].type = transactions[ref].type
          /\ transactions'[ref] # transactions[ref] =>
                \E t \in Tasks : ConfirmsReference(t, ref)]_vars

\* C34 witness: the first deposit is still PENDING with its amount after a
\* later deposit on the same wallet was confirmed and credited and a
\* transfer was made from that wallet.
C34_Witness ==
    /\ PendingDeposit(Ref(1, ""))
    /\ Entry(1, "").amount = Naira(MinDeposit)
    /\ \E r \in Roots \ {1} :
          /\ HasEntry(r, "")
          /\ Entry(r, "").status = "SUCCESS"
          /\ Entry(r, "").walletId = Entry(1, "").walletId
    /\ \E r \in Roots :
          /\ HasEntry(r, "_debit") /\ HasEntry(r, "_credit")
          /\ Entry(r, "_debit").walletId = Entry(1, "").walletId
    /\ lastResp = RespTransferDone

\* the provider holds the payment of deposit `root`, whose entry is PENDING
PendingPaid(root) ==
    /\ root \in DOMAIN paystack
    /\ PendingDeposit(Ref(root, ""))

\* the entry of deposit `root` is SUCCESS and its wallet holds the credit
Settled(root) ==
    /\ HasEntry(root, "")
    /\ Entry(root, "").status = "SUCCESS"
    /\ credited[root] >= 1
    /\ balance[Entry(root, "").walletId] >= AmountInNaira(paystack[root])

\* C35: under at-least-once delivery and store failures that stop, every
\* PENDING deposit whose payment the provider reports eventually is SUCCESS
\* with its wallet credited.
C35_EventuallySettled == \A root \in Roots : PendingPaid(root) ~> Settled(root)

\* C35 witness: a deposit is settled by a redelivery: two deliveries entered
\* the transaction, the first failed and was rolled back, one credit was made.
C35_Witness ==
    /\ Settled(1)
    /\ nConfirm = MaxConfirm
    /\ credited[1] = 1
    /\ lastResp = RespCredited
    /\ AllIdle
====
